---- MODULE Spec2Model ----
(***************************************************************************)
(* Data-quality rule execution, audit log, scoring, duplicate detection    *)
(* and annexure building of modules/dq.py, driven by the assessment        *)
(* handler _run_dq_assessment of app.py.                                   *)
(*                                                                         *)
(* Cell values are strings, modelled as sequences of one-character         *)
(* strings so that strip() and lower() are computed, not assumed.          *)
(* Column names, rule names and labels are plain strings.                  *)
(* Scores are kept in hundredths of a percent (round(x, 2) * 100), an      *)
(* Optional[float] is <<>> for None and <<v>> for a value.                 *)
(***************************************************************************)
EXTENDS Integers, Sequences, FiniteSets, TLC

VARIABLES
    log,          \* _RULE_EXEC_LOG, the module-global audit log
    df,           \* dataset of the last assessment run (sequence of rows)
    cfg,          \* configuration of the last assessment run
    run,          \* what the last assessment run produced
    rerun,        \* <<>> or <<r>>: r is the run before a repeated run
    fuzz,         \* scores of the external string scorers, fixed per build
    rapidfuzz,    \* RAPIDFUZZ_AVAILABLE (and cdist importable)
    det,          \* result of the last duplicate-detection call
    call,         \* result of the last call of a rule executor
    workers       \* the assessment runs under way in concurrent sessions

vars == <<log, df, cfg, run, rerun, fuzz, rapidfuzz, det, call, workers>>

----------------------------------------------------------------------------
(* Bounds *)

MaxRows == 2        \* rows of a dataset in an assessment run
MaxLog == 1         \* a run starts only while the log holds at most this many entries
MaxDupRows == 3     \* rows of a dataset handed to the duplicate detectors
MaxExecRows == 2    \* rows of a dataset handed to a rule executor

----------------------------------------------------------------------------
(* Strings *)

Range(s) == {s[i] : i \in 1..Len(s)}

SeqSum(s) ==
    LET F[i \in 0..Len(s)] == IF i = 0 THEN 0 ELSE F[i - 1] + s[i]
    IN  F[Len(s)]

Concat(ss) ==
    LET F[i \in 0..Len(ss)] == IF i = 0 THEN <<>> ELSE F[i - 1] \o ss[i]
    IN  F[Len(ss)]

\* list(dict.fromkeys(xs)): first occurrences, in order
FromKeys(s) ==
    LET F[i \in 0..Len(s)] ==
            IF i = 0 THEN <<>>
            ELSE IF s[i] \in Range(F[i - 1]) THEN F[i - 1] ELSE Append(F[i - 1], s[i])
    IN  F[Len(s)]

IsSpace(c) == c = " "

\* "".join(chars): the Python string a sequence of characters spells
ToStr(s) ==
    LET F[i \in 0..Len(s)] == IF i = 0 THEN "" ELSE F[i - 1] \o s[i]
    IN  F[Len(s)]

\* sep.join(parts), on character sequences
Join(parts, sep) ==
    LET F[i \in 0..Len(parts)] ==
            IF i = 0 THEN <<>>
            ELSE IF i = 1 THEN parts[1] ELSE F[i - 1] \o sep \o parts[i]
    IN  F[Len(parts)]

LowerChar(c) ==
    CASE c = "A" -> "a"
      [] c = "B" -> "b"
      [] c = "C" -> "c"
      [] c = "N" -> "n"
      [] OTHER -> c

\* str.lower()
Lower(s) == [i \in 1..Len(s) |-> LowerChar(s[i])]

\* str.strip()
RECURSIVE LStrip(_)
LStrip(s) == IF s # <<>> /\ IsSpace(Head(s)) THEN LStrip(Tail(s)) ELSE s

RECURSIVE RStrip(_)
RStrip(s) ==
    IF s # <<>> /\ IsSpace(s[Len(s)]) THEN RStrip(SubSeq(s, 1, Len(s) - 1)) ELSE s

Strip(s) == RStrip(LStrip(s))

\* s[:k]
Prefix(s, k) == SubSeq(s, 1, IF Len(s) < k THEN Len(s) ELSE k)

\* .str.strip().str.lower()
Normalize(s) == Lower(Strip(s))

_NULL_SENTINELS ==
    { <<>>,
      <<"n", "a", "n">>,
      <<"n", "o", "n", "e">>,
      <<"n", "u", "l", "l">>,
      <<"n", "a">>,
      <<"n", "/", "a">>,
      <<"n", ".", "a", ".">>,
      <<"n", "i", "l">>,
      <<"m", "i", "s", "s", "i", "n", "g">>,
      <<"#", "n", "/", "a">> }

----------------------------------------------------------------------------
(* Completeness and validity rules: TRUE where the cell passes *)

\* a test of the stripped value that leaves its case as it is
rule_not_null_m(v) == Strip(v) \notin _NULL_SENTINELS

rule_not_null(v) == Lower(Strip(v)) \notin _NULL_SENTINELS

rule_not_empty(v) == Len(Strip(v)) > 0

rule_whitespace_only(v) == ~(Len(v) > 0 /\ \A i \in 1..Len(v) : IsSpace(v[i]))

rule_minimum_length(v, min_len) ==
    LET s == Strip(v)
        is_null == Lower(s) \in _NULL_SENTINELS
    IN  (~is_null) /\ Len(s) >= min_len

_is_empty_for_validity(s) == Lower(s) \in _NULL_SENTINELS

rule_allowed_values(v, allowed) ==
    LET s == Strip(v)
        skip == _is_empty_for_validity(s)
        allowed_lower == {Lower(Strip(allowed[i])) : i \in 1..Len(allowed)}
    IN  skip \/ Lower(s) \in allowed_lower

\* "Length Check": s.astype(str).str.len().le(max_len) | s.isna(); the cells are
\* strings (load_dataset reads with dtype=str), so isna() holds of none
rule_length_check(v, max_len) == Len(v) <= max_len

LowerLetters == {"a", "b", "c", "d", "e", "f", "g", "h", "i", "j", "k", "l", "m",
                 "n", "o", "p", "q", "r", "s", "t", "u", "v", "w", "x", "y", "z"}

UpperLetters == {"A", "B", "C", "D", "E", "F", "G", "H", "I", "J", "K", "L", "M",
                 "N", "O", "P", "Q", "R", "S", "T", "U", "V", "W", "X", "Y", "Z"}

Digits == {"0", "1", "2", "3", "4", "5", "6", "7", "8", "9"}

Alnum == LowerLetters \cup UpperLetters \cup Digits

\* one or more characters, all of the class
AllIn(s, class) == s # <<>> /\ \A i \in 1..Len(s) : s[i] \in class

\* the patterns of the rules and of the rule configurations
EmailPattern == "^[a-zA-Z0-9_.+\\-]+@[a-zA-Z0-9\\-]+\\.[a-zA-Z0-9.\\-]+$"

IntegerPattern == "-?\\d+"

AllowedCharsDefault == "^[a-zA-Z0-9\\s]+$"

FormatDefault == "^[a-zA-Z0-9]+$"

LowercasePattern == "[a-z]+"

UnbalancedPattern == "("

\* re.compile(pattern) succeeds; it raises re.error otherwise
Compiles(pattern) == pattern # UnbalancedPattern

\* user@domain.tld: one "@", a local part, a domain label, a dot and a suffix
EmailMatch(s) ==
    \E at \in 1..Len(s), dot \in 1..Len(s) :
        /\ s[at] = "@" /\ s[dot] = "." /\ at < dot
        /\ AllIn(SubSeq(s, 1, at - 1), Alnum \cup {"_", ".", "+", "-"})
        /\ AllIn(SubSeq(s, at + 1, dot - 1), Alnum \cup {"-"})
        /\ AllIn(SubSeq(s, dot + 1, Len(s)), Alnum \cup {".", "-"})

\* the whole of s matches the pattern: str.fullmatch, and str.match of a pattern
\* anchored at both ends (no cell holds a newline)
FullMatch(pattern, s) ==
    CASE pattern = EmailPattern -> EmailMatch(s)
      [] pattern = IntegerPattern ->
            AllIn(IF s # <<>> /\ s[1] = "-" THEN Tail(s) ELSE s, Digits)
      [] pattern = AllowedCharsDefault -> AllIn(s, Alnum \cup {" "})
      [] pattern = FormatDefault -> AllIn(s, Alnum)
      [] pattern = LowercasePattern -> AllIn(s, LowerLetters)

\* of the expected types, "integer" and "string" are modelled; any other name takes
\* the else branch of "string"
rule_data_type(v, expected) ==
    LET s == Strip(v)
        skip == _is_empty_for_validity(s)
    IN  IF expected = "integer" THEN skip \/ FullMatch(IntegerPattern, s) ELSE TRUE

rule_email_format(v) ==
    LET s == Strip(v)
    IN  _is_empty_for_validity(s) \/ FullMatch(EmailPattern, s)

\* the except branch: every cell passes when the pattern does not compile
rule_custom_regex(v, pattern) ==
    LET s == Strip(v)
        skip == _is_empty_for_validity(s)
    IN  IF Compiles(pattern) THEN skip \/ FullMatch(pattern, s) ELSE TRUE

\* "Special Characters Not Allowed" and "Format Check":
\* s.astype(str).str.match(pattern, na=False) | s.isna(), of a pattern that compiles
rule_pattern_check(v, pattern) == FullMatch(pattern, v)

----------------------------------------------------------------------------
(* Standardization transforms: <<cleaned, changed>> *)

std_trim_spaces(v) == <<Strip(v), v # Strip(v)>>

std_lowercase(v) == <<Lower(Strip(v)), v # Lower(Strip(v))>>

\* cleaned is the stripped value everywhere and the default where the mask holds;
\* the changed flag is the mask
std_replace_null_default(v, default) ==
    LET s == Strip(v)
        mask == s = <<>> \/ Lower(s) = <<"n", "a", "n">> \/ Lower(s) = <<"n", "o", "n", "e">>
    IN  <<IF mask THEN default ELSE s, mask>>

----------------------------------------------------------------------------
(* Rule execution audit log *)

\* the record _log_rule appends (Score_% and Severity derive from these fields)
LogEntry(dimension, column, rule, evaluated, failed) ==
    [Dimension |-> dimension, Column |-> column, Rule |-> rule,
     Evaluated |-> evaluated, Failed |-> failed, Passed |-> evaluated - failed]

_annex_row(idx, col, rule, issue, orig, expected, dim) ==
    [Row_Number |-> idx + 2, Column_Name |-> col, Rule_Applied |-> rule,
     Issue_Type |-> issue, Original_Value |-> orig, Expected_Value |-> expected,
     Dimension |-> dim]

\* repr(str(v))
Repr(v) == <<"'">> \o v \o <<"'">>

n_rows(d) == Len(d.rows)

\* df[col] as the sequence of its cells; df.index is 0..n-1, position i holds index i-1
Series(d, col) == [i \in 1..n_rows(d) |-> d.rows[i][col]]

\* One (column, rule) evaluation: the annexure rows of the failing cells, in index
\* order, and the audit entry _log_rule appends for it.  mask[i] is TRUE where row i passes.
Evaluate(d, dim, col, rule, issue, expected, mask, quoted) ==
    LET s == Series(d, col)
        rows == Concat([i \in 1..n_rows(d) |->
                    IF mask[i] THEN <<>>
                    ELSE <<_annex_row(i - 1, col, rule, issue,
                                      IF quoted THEN Repr(s[i]) ELSE s[i],
                                      expected, dim)>>])
    IN  [annexure |-> rows,
         entries  |-> <<LogEntry(dim, col, rule, n_rows(d), Len(rows))>>]

Nothing == [annexure |-> <<>>, entries |-> <<>>]

\* results of consecutive evaluations: annexure.extend(...) and the log appends, in order
Merge(blocks) ==
    [annexure |-> Concat([i \in 1..Len(blocks) |-> blocks[i].annexure]),
     entries  |-> Concat([i \in 1..Len(blocks) |-> blocks[i].entries])]

----------------------------------------------------------------------------
(* execute_completeness_rules *)

Has(config, key) == key \in DOMAIN config

Get(config, key, default) == IF Has(config, key) THEN config[key] ELSE default

Mask(d, col, Pass(_)) == [i \in 1..n_rows(d) |-> Pass(d.rows[i][col])]

InDf(d, col) == col \in Range(d.columns)

\* rule_funcs, in dictionary order
SimpleCompletenessRules == <<"Not Null", "Not Empty", "Whitespace Only">>

_run_simple(d, col, rule_name) ==
    CASE rule_name = "Not Null" ->
            Evaluate(d, "Completeness", col, rule_name, "Missing Values",
                     "Non-null value", Mask(d, col, rule_not_null), FALSE)
      [] rule_name = "Not Empty" ->
            Evaluate(d, "Completeness", col, rule_name, "Missing Values",
                     "Non-empty value", Mask(d, col, rule_not_empty), FALSE)
      [] rule_name = "Whitespace Only" ->
            Evaluate(d, "Completeness", col, rule_name, "Missing Values",
                     "Non-whitespace value", Mask(d, col, rule_whitespace_only), TRUE)

MinimumLength(d, col, min_len) ==
    Evaluate(d, "Completeness", col, "Minimum Length (" \o ToString(min_len) \o ")",
             "Missing Values", "Length >= " \o ToString(min_len),
             Mask(d, col, LAMBDA v : rule_minimum_length(v, min_len)), FALSE)

MandatoryColumn(d, col) ==
    Evaluate(d, "Completeness", col, "Mandatory Column", "Missing Values",
             "Required value", Mask(d, col, rule_not_null), FALSE)

\* the column_rule_map path: only the mapped (column, rule) pairs, in map order
CompletenessMapEntry(d, entry, min_length_val) ==
    IF ~InDf(d, entry.column) THEN Nothing
    ELSE IF entry.rule \in Range(SimpleCompletenessRules)
         THEN _run_simple(d, entry.column, entry.rule)
    ELSE IF entry.rule = "Minimum Length"
         THEN MinimumLength(d, entry.column,
                  Get(entry.config, "min_length",
                      Get(entry.config, "min_length_val", min_length_val)))
    ELSE IF entry.rule = "Mandatory Column" THEN MandatoryColumn(d, entry.column)
    ELSE Nothing

\* the legacy path: every selected rule on every column of the columns list
CompletenessLegacyColumn(d, col, selected_rules, min_length_val) ==
    IF ~InDf(d, col) THEN Nothing
    ELSE Merge(
        [k \in 1..Len(SimpleCompletenessRules) |->
            IF SimpleCompletenessRules[k] \in Range(selected_rules)
            THEN _run_simple(d, col, SimpleCompletenessRules[k]) ELSE Nothing]
        \o <<IF "Minimum Length" \in Range(selected_rules)
             THEN MinimumLength(d, col, min_length_val) ELSE Nothing>>)

\* mandatory_cols and column_rule_map are <<>> where the code has None
execute_completeness_rules(d, selected_rules, columns, min_length_val, mandatory_cols, column_rule_map) ==
    IF column_rule_map # <<>>
    THEN Merge([k \in 1..Len(column_rule_map) |->
                   CompletenessMapEntry(d, column_rule_map[k], min_length_val)])
    ELSE Merge(
        [k \in 1..Len(columns) |->
            CompletenessLegacyColumn(d, columns[k], selected_rules, min_length_val)]
        \o (IF "Mandatory Column" \in Range(selected_rules) /\ mandatory_cols # <<>>
            THEN [k \in 1..Len(mandatory_cols) |->
                     IF InDf(d, mandatory_cols[k])
                     THEN MandatoryColumn(d, mandatory_cols[k]) ELSE Nothing]
            ELSE <<>>))

----------------------------------------------------------------------------
(* execute_validity_rules *)

\* s.split(",")
RECURSIVE SplitComma(_)
SplitComma(s) ==
    IF \E i \in 1..Len(s) : s[i] = ","
    THEN LET i == CHOOSE i \in 1..Len(s) : s[i] = "," /\ \A j \in 1..(i - 1) : s[j] # ","
         IN  <<SubSeq(s, 1, i - 1)>> \o SplitComma(SubSeq(s, i + 1, Len(s)))
    ELSE <<s>>

\* [v.strip() for v in av_raw.split(",") if v.strip()] if av_raw else []
AllowedList(av_raw) ==
    IF av_raw = <<>> THEN <<>>
    ELSE SelectSeq([i \in 1..Len(SplitComma(av_raw)) |-> Strip(SplitComma(av_raw)[i])],
                   LAMBDA v : v # <<>>)

AllowedValues(d, col, allowed_list) ==
    Evaluate(d, "Validity", col, "Allowed Values", "Invalid Format",
             "One of: " \o ToStr(Join(SubSeq(allowed_list, 1,
                              IF Len(allowed_list) < 5 THEN Len(allowed_list) ELSE 5),
                              <<",", " ">>))
                        \o (IF Len(allowed_list) > 5 THEN "..." ELSE ""),
             Mask(d, col, LAMBDA v : rule_allowed_values(v, allowed_list)), FALSE)

LengthCheck(d, col, max_len) ==
    Evaluate(d, "Validity", col, "Length Check (max " \o ToString(max_len) \o ")",
             "Invalid Format", "Length <= " \o ToString(max_len),
             Mask(d, col, LAMBDA v : rule_length_check(v, max_len)), FALSE)

DefaultMaxLength == 255

\* simple_rules; of these, Email Format is modelled
EmailFormat(d, col) ==
    Evaluate(d, "Validity", col, "Email Format", "Invalid Format",
             "Valid email (user@domain.tld)", Mask(d, col, rule_email_format), FALSE)

DataTypeValidation(d, col, exp_type) ==
    Evaluate(d, "Validity", col, "Data Type (" \o exp_type \o ")", "Invalid Format",
             "Expected type: " \o exp_type,
             Mask(d, col, LAMBDA v : rule_data_type(v, exp_type)), FALSE)

\* pattern[:30] and pattern[:50] are the pattern: no pattern here is that long
CustomRegex(d, col, pattern) ==
    Evaluate(d, "Validity", col, "Regex: " \o pattern, "Invalid Format",
             "Matches: " \o pattern,
             Mask(d, col, LAMBDA v : rule_custom_regex(v, pattern)), FALSE)

SpecialCharacters(d, col, pattern) ==
    Evaluate(d, "Validity", col, "Special Characters Not Allowed", "Invalid Format",
             "Alphanumeric + spaces only",
             Mask(d, col, LAMBDA v : rule_pattern_check(v, pattern)), FALSE)

FormatCheck(d, col, pattern) ==
    Evaluate(d, "Validity", col, "Format Check (" \o pattern \o ")", "Invalid Format",
             "Expected format: " \o pattern,
             Mask(d, col, LAMBDA v : rule_pattern_check(v, pattern)), FALSE)

\* the pattern str.match compiles for the entry: <<>> for a rule that compiles none
MatchedPattern(entry) ==
    IF entry.rule = "Special Characters Not Allowed"
    THEN <<Get(entry.config, "allowed_chars_pattern", AllowedCharsDefault)>>
    ELSE IF entry.rule = "Format Check"
         THEN <<Get(entry.config, "format_pattern", FormatDefault)>>
    ELSE <<>>

\* the entry ends execute_validity_rules in re.error: str.match has no except branch
ValidityRaises(d, entry) ==
    /\ InDf(d, entry.column)
    /\ MatchedPattern(entry) # <<>>
    /\ ~Compiles(MatchedPattern(entry)[1])

ValidityMapEntry(d, entry) ==
    IF ~InDf(d, entry.column) THEN Nothing
    ELSE IF entry.rule = "Email Format" THEN EmailFormat(d, entry.column)
    ELSE IF entry.rule = "Data Type Validation"
         THEN DataTypeValidation(d, entry.column, Get(entry.config, "data_type", "string"))
    ELSE IF entry.rule = "Allowed Values"
         THEN LET allowed_list == AllowedList(
                      Get(entry.config, "allowed_values_str",
                          Get(entry.config, "allowed_values", <<>>)))
              IN  IF allowed_list # <<>>
                  THEN AllowedValues(d, entry.column, allowed_list) ELSE Nothing
    ELSE IF entry.rule = "Custom Regex"
         THEN LET pattern == Get(entry.config, "regex", Get(entry.config, "custom_regex", ""))
              IN  IF pattern # "" THEN CustomRegex(d, entry.column, pattern) ELSE Nothing
    ELSE IF entry.rule = "Special Characters Not Allowed"
         THEN SpecialCharacters(d, entry.column, MatchedPattern(entry)[1])
    ELSE IF entry.rule = "Length Check"
         THEN LengthCheck(d, entry.column, Get(entry.config, "max_length_val", DefaultMaxLength))
    ELSE IF entry.rule = "Format Check"
         THEN FormatCheck(d, entry.column, MatchedPattern(entry)[1])
    ELSE Nothing

\* the entries of the map the loop gets through: those before the first that raises
ValidityReached(d, column_rule_map) ==
    LET bad == {k \in 1..Len(column_rule_map) : ValidityRaises(d, column_rule_map[k])}
    IN  IF bad = {} THEN column_rule_map
        ELSE SubSeq(column_rule_map, 1, (CHOOSE k \in bad : \A j \in bad : k <= j) - 1)

\* the annexure returned and the audit entries appended; raised: the call ended in
\* re.error, the entries logged before it stay in the audit log and no annexure is
\* returned.  Of the rule kinds, Email Format, Data Type Validation, Allowed Values,
\* Custom Regex, Special Characters Not Allowed, Length Check and Format Check are
\* modelled, all but Allowed Values on the column_rule_map path only.
execute_validity_rules(d, selected_rules, columns, allowed_values_str, column_rule_map) ==
    IF column_rule_map # <<>>
    THEN LET reached == ValidityReached(d, column_rule_map)
             done == Merge([k \in 1..Len(reached) |-> ValidityMapEntry(d, reached[k])])
             raised == Len(reached) < Len(column_rule_map)
         IN  [annexure |-> IF raised THEN <<>> ELSE done.annexure,
              entries  |-> done.entries,
              raised   |-> raised]
    ELSE LET done == Merge([k \in 1..Len(columns) |->
                        IF InDf(d, columns[k]) /\ "Allowed Values" \in Range(selected_rules)
                           /\ AllowedList(allowed_values_str) # <<>>
                        THEN AllowedValues(d, columns[k], AllowedList(allowed_values_str))
                        ELSE Nothing])
         IN  [annexure |-> done.annexure, entries |-> done.entries, raised |-> FALSE]

----------------------------------------------------------------------------
(* execute_standardization_rules *)

\* inline_rules, in dictionary order
InlineRules == <<"Trim Spaces", "Convert to Lowercase">>

DefaultNullDefault == <<"N", "/", "A">>

\* cleaned[col] = new_vals
SetColumn(d, col, new_vals) ==
    [d EXCEPT !.rows = [i \in 1..n_rows(d) |-> [d.rows[i] EXCEPT ![col] = new_vals[i]]]]

\* _apply_inline and _apply_null_default: the transform runs on the running copy
\* `cleaned`, the audit entry counts n_rows = len(df)
ApplyStd(cleaned, col, label, Func(_), default_expected) ==
    LET res == [i \in 1..n_rows(cleaned) |-> Func(cleaned.rows[i][col])]
        rows == Concat([i \in 1..n_rows(cleaned) |->
                    IF res[i][2]
                    THEN <<_annex_row(i - 1, col, label, "Non-Standard Values",
                                      cleaned.rows[i][col],
                                      IF default_expected # <<>> THEN default_expected[1]
                                      ELSE res[i][1],
                                      "Standardization")>>
                    ELSE <<>>])
        changed == Cardinality({i \in 1..n_rows(cleaned) : res[i][2]})
    IN  [cleaned  |-> SetColumn(cleaned, col, [i \in 1..n_rows(cleaned) |-> res[i][1]]),
         annexure |-> rows,
         entries  |-> <<LogEntry("Standardization", col, label, n_rows(cleaned), changed)>>]

_apply_inline(cleaned, col, rule_name) ==
    IF rule_name = "Trim Spaces"
    THEN ApplyStd(cleaned, col, rule_name, std_trim_spaces, <<>>)
    ELSE ApplyStd(cleaned, col, rule_name, std_lowercase, <<>>)

_apply_null_default(cleaned, col, default) ==
    ApplyStd(cleaned, col, "Replace Null -> " \o ToStr(default),
             LAMBDA v : std_replace_null_default(v, default), <<default>>)

\* the steps execute_standardization_rules takes, as <<column, rule, config>> in order
StdSteps(d, selected_rules, columns, column_rule_map) ==
    IF column_rule_map # <<>>
    THEN column_rule_map
    ELSE Concat([k \in 1..Len(columns) |->
            SelectSeq([j \in 1..Len(InlineRules) |->
                          [column |-> columns[k], rule |-> InlineRules[j], config |-> <<>>]],
                      LAMBDA e : e.rule \in Range(selected_rules))
            \o (IF "Replace Null with Default" \in Range(selected_rules)
                THEN <<[column |-> columns[k], rule |-> "Replace Null with Default",
                        config |-> <<>>]>>
                ELSE <<>>)])

StdStep(acc, entry, null_default) ==
    LET r == IF ~InDf(acc.cleaned, entry.column) THEN Nothing
             ELSE IF entry.rule \in Range(InlineRules)
                  THEN _apply_inline(acc.cleaned, entry.column, entry.rule)
             ELSE IF entry.rule = "Replace Null with Default"
                  THEN _apply_null_default(acc.cleaned, entry.column,
                           Get(entry.config, "null_default", null_default))
             ELSE Nothing
    IN  [cleaned  |-> IF Has(r, "cleaned") THEN r.cleaned ELSE acc.cleaned,
         annexure |-> acc.annexure \o r.annexure,
         entries  |-> acc.entries \o r.entries]

\* Returns cleaned, annexure and the audit entries appended.  Of the transforms, Trim
\* Spaces, Convert to Lowercase and Replace Null with Default are modelled.
StdFold(d, steps, null_default) ==
    LET F[k \in 0..Len(steps)] ==
            IF k = 0 THEN [cleaned |-> d, annexure |-> <<>>, entries |-> <<>>]
            ELSE StdStep(F[k - 1], steps[k], null_default)
    IN  F

execute_standardization_rules(d, selected_rules, columns, null_default, column_rule_map) ==
    LET steps == StdSteps(d, selected_rules, columns, column_rule_map)
    IN  StdFold(d, steps, null_default)[Len(steps)]

----------------------------------------------------------------------------
(* Exact duplicate detection *)

\* positions (1-based) of the rows of d, in index order, that satisfy P
Positions(n, P(_)) == SelectSeq([i \in 1..n |-> i], P)

\* {v: i + 1 for i, v in enumerate(groups.unique())}: the rank of key among the
\* distinct keys of the duplicated rows, in order of first appearance
GroupId(keys, dup_pos, key) ==
    LET uniq == FromKeys([k \in 1..Len(dup_pos) |-> keys[dup_pos[k]]])
    IN  CHOOSE g \in 1..Len(uniq) : uniq[g] = key

DupRecord(pos, gid, type, score, source) ==
    [idx |-> pos - 1, Row_Number |-> pos + 1, Duplicate_Group_ID |-> gid,
     Duplicate_Type |-> type, Similarity_Score |-> score, Source |-> source]

\* rows that are valid and whose key occurs at least twice among the valid rows
ExactGroups(d, keys, valid, type, source) ==
    LET n == n_rows(d)
        dup_pos == Positions(n, LAMBDA i :
                       valid[i] /\ \E j \in 1..n : j # i /\ valid[j] /\ keys[j] = keys[i])
    IN  [k \in 1..Len(dup_pos) |->
            DupRecord(dup_pos[k], GroupId(keys, dup_pos, keys[dup_pos[k]]), type, 10000, source)]

\* a detector that compares the trimmed values as they are cased
detect_exact_duplicates_single_m(d, col) ==
    LET s == [i \in 1..n_rows(d) |-> Strip(d.rows[i][col])]
        non_null_mask == [i \in 1..n_rows(d) |-> Lower(s[i]) \notin _NULL_SENTINELS]
    IN  ExactGroups(d, s, non_null_mask, "Exact", col)

detect_exact_duplicates_single(d, col) ==
    LET s == [i \in 1..n_rows(d) |-> Normalize(d.rows[i][col])]
        non_null_mask == [i \in 1..n_rows(d) |-> s[i] \notin _NULL_SENTINELS]
    IN  ExactGroups(d, s, non_null_mask, "Exact", col)

\* combined frame: the per-column frames of the columns present, concatenated
detect_exact_duplicates_multi_single(d, cols) ==
    Concat([k \in 1..Len(cols) |->
               IF InDf(d, cols[k]) THEN detect_exact_duplicates_single(d, cols[k]) ELSE <<>>])

\* a detector that leaves out every row with an Absent cell in a selected column
detect_exact_duplicates_combination_m(d, cols) ==
    LET combo == [i \in 1..n_rows(d) |-> [k \in 1..Len(cols) |-> Normalize(d.rows[i][cols[k]])]]
        any_null_mask == [i \in 1..n_rows(d) |->
                             \E k \in 1..Len(cols) : combo[i][k] \in _NULL_SENTINELS]
        combo_key == [i \in 1..n_rows(d) |-> Join(combo[i], <<"|", "|">>)]
    IN  ExactGroups(d, combo_key, [i \in 1..n_rows(d) |-> ~any_null_mask[i]],
                    "Combination", "")

detect_exact_duplicates_combination(d, cols) ==
    LET combo == [i \in 1..n_rows(d) |-> [k \in 1..Len(cols) |-> Normalize(d.rows[i][cols[k]])]]
        all_null_mask == [i \in 1..n_rows(d) |->
                             \A k \in 1..Len(cols) : combo[i][k] \in _NULL_SENTINELS]
        combo_key == [i \in 1..n_rows(d) |-> Join(combo[i], <<"|", "|">>)]
    IN  ExactGroups(d, combo_key, [i \in 1..n_rows(d) |-> ~all_null_mask[i]],
                    "Combination", "")

----------------------------------------------------------------------------
(* Hybrid fuzzy duplicate detection *)

\* round(a / b, 0) for a >= 0, b > 0, as Python rounds: ties go to the even neighbour
RoundDiv(a, b) ==
    LET q == a \div b
        r == a % b
    IN  IF 2 * r < b THEN q
        ELSE IF 2 * r > b THEN q + 1
        ELSE IF q % 2 = 0 THEN q ELSE q + 1

\* The weighted four-scorer ensemble (rapidfuzz) or SequenceMatcher ratio * 100 (difflib)
\* of two normalized strings.  The scorers are external: identical non-empty strings
\* score 100 with every scorer, any other pair scores what the build's scorers return,
\* read from the table fuzz.
LibScore(x, y) == IF x = y /\ x # <<>> THEN 100 ELSE fuzz[{x, y}]

_hybrid_cell_score(a_val, b_val) ==
    LET a_str == Normalize(a_val)
        b_str == Normalize(b_val)
    IN  IF a_str = b_str THEN 100
        ELSE IF a_str = <<>> /\ b_str = <<>> THEN 100
        ELSE IF a_str = <<>> \/ b_str = <<>> THEN 0
        ELSE LibScore(a_str, b_str)

\* A row score is the fraction num / den (den > 0) of a percentage.
\* sum(s * w) / total_w over the columns of positive weight; 0.0 without any
_hybrid_row_score(a, b, cols, weights) ==
    LET used == {k \in 1..Len(cols) : weights[k] > 0}
        total_w == SeqSum([k \in 1..Len(cols) |-> IF k \in used THEN weights[k] ELSE 0])
    IN  IF used = {} THEN [num |-> 0, den |-> 1]
        ELSE [num |-> SeqSum([k \in 1..Len(cols) |->
                         IF k \in used
                         THEN _hybrid_cell_score(a[cols[k]], b[cols[k]]) * weights[k]
                         ELSE 0]),
              den |-> total_w]

\* one cell of the n x n matrix: cdist scores the normalized values of every column of
\* positive weight with no short-circuit of its own
_rapidfuzz_cdist_block_scores(a, b, cols, weights) ==
    LET total_weight == SeqSum([k \in 1..Len(cols) |->
                                   IF weights[k] > 0 THEN weights[k] ELSE 0])
    IN  IF total_weight = 0 THEN [num |-> 0, den |-> 1]
        ELSE [num |-> SeqSum([k \in 1..Len(cols) |->
                         IF weights[k] > 0
                         THEN LibScore(Normalize(a[cols[k]]), Normalize(b[cols[k]])) * weights[k]
                         ELSE 0]),
              den |-> total_weight]

GeoColumns == <<"Country", "country", "COUNTRY", "City", "city", "CITY",
                "State", "state", "STATE", "Region", "region">>

\* work["_block"] of one row
BlockKey(d, row, first_col) ==
    LET primary == Prefix(Normalize(row[first_col]), 2)
        geo == SelectSeq(GeoColumns, LAMBDA g : InDf(d, g))
    IN  IF geo = <<>> THEN primary
        ELSE primary \o <<"|">> \o Prefix(Normalize(row[geo[1]]), 3)

\* sort_values("_score", ascending=False): insertion of each pair before the first
\* pair of smaller score
RECURSIVE SortDesc(_)
SortDesc(ms) ==
    IF ms = <<>> THEN <<>>
    ELSE LET rest == SortDesc(SubSeq(ms, 1, Len(ms) - 1))
             m == ms[Len(ms)]
             k == Cardinality({i \in 1..Len(rest) : rest[i].num >= m.num})
         IN  SubSeq(rest, 1, k) \o <<m>> \o SubSeq(rest, k + 1, Len(rest))

RECURSIVE _find(_, _)
_find(parent, x) == IF parent[x] # x THEN _find(parent, parent[x]) ELSE x

\* parent[x] = _find(parent[x]) along the path from x: path compression
RECURSIVE Compress(_, _)
Compress(parent, x) ==
    IF parent[x] # x
    THEN [Compress(parent, parent[x]) EXCEPT ![x] = _find(parent, x)]
    ELSE parent

\* a union that re-parents y itself and not the root of y
_union_m(parent, x, y) ==
    LET rx == _find(parent, x)
        ry == _find(parent, y)
        compressed == Compress(Compress(parent, x), y)
    IN  IF rx # ry THEN [compressed EXCEPT ![y] = rx] ELSE compressed

_union(parent, x, y) ==
    LET rx == _find(parent, x)
        ry == _find(parent, y)
        compressed == Compress(Compress(parent, x), y)
    IN  IF rx # ry THEN [compressed EXCEPT ![ry] = rx] ELSE compressed

\* parent after the unions of all pairs, in pair_df order
UnionAll(n, pairs) ==
    LET F[k \in 0..Len(pairs)] ==
            IF k = 0 THEN [x \in 1..n |-> x]
            ELSE _union(F[k - 1], pairs[k].i, pairs[k].j)
    IN  F[Len(pairs)]

\* a filter that keeps every row whatever the flag
FuzzyWork_m(d, cols, ignore_nulls) == Positions(n_rows(d), LAMBDA i : TRUE)

\* positions of the rows kept in `work`: with ignore_nulls, the rows with no
\* null sentinel in any fuzzy column that the dataset has
FuzzyWork(d, cols, ignore_nulls) ==
    Positions(n_rows(d), LAMBDA i :
        ~ignore_nulls
        \/ \A k \in 1..Len(cols) :
               InDf(d, cols[k]) => Normalize(d.rows[i][cols[k]]) \notin _NULL_SENTINELS)

\* the rows of `work` with their block keys, those of empty key left out
KeyedRows(d, work, first_col) ==
    SelectSeq([k \in 1..Len(work) |->
                  [pos |-> work[k], key |-> BlockKey(d, d.rows[work[k]], first_col)]],
              LAMBDA x : x.key # <<>>)

BlocksByKey(keyed, keys) ==
    [b \in 1..Len(keys) |->
        SelectSeq([k \in 1..Len(keyed) |-> keyed[k].pos],
                  LAMBDA i : \E k \in 1..Len(keyed) : keyed[k].pos = i /\ keyed[k].key = keys[b])]

BlocksOf(keyed) == BlocksByKey(keyed, FromKeys([k \in 1..Len(keyed) |-> keyed[k].key]))

\* groupby("_block", sort=False) over the rows of non-empty key: the blocks in order of
\* first appearance, each the positions of its rows in index order
FuzzyBlocks(d, work, first_col) == BlocksOf(KeyedRows(d, work, first_col))

PairCount(n) == (n * (n - 1)) \div 2

\* a block of fewer than 2 rows is passed over, one of more than max_pairs_per_block
\* pairs is skipped, any other is compared
BlockSkipped(idxs, max_pairs_per_block) ==
    Len(idxs) >= 2 /\ PairCount(Len(idxs)) > max_pairs_per_block

\* a limit that a block has to stay below
BlockCompared_m(idxs, max_pairs_per_block) ==
    Len(idxs) >= 2 /\ PairCount(Len(idxs)) < max_pairs_per_block

BlockCompared(idxs, max_pairs_per_block) ==
    Len(idxs) >= 2 /\ PairCount(Len(idxs)) <= max_pairs_per_block

RowScore(d, i, j, cols, weights) ==
    IF rapidfuzz THEN _rapidfuzz_cdist_block_scores(d.rows[i], d.rows[j], cols, weights)
    ELSE _hybrid_row_score(d.rows[i], d.rows[j], cols, weights)

\* score >= threshold
Accepted(score, threshold) == score.num >= threshold * score.den

\* matches.append({"_i", "_j", "_score"}) when the score reaches the threshold
PairMatch(i, j, score, threshold) ==
    IF Accepted(score, threshold)
    THEN <<[i |-> i, j |-> j, num |-> score.num, den |-> score.den]>>
    ELSE <<>>

\* the accepted pairs of one compared block, i_pos < j_pos, in loop order
BlockMatches(d, idxs, cols, weights, threshold) ==
    Concat([a \in 1..Len(idxs) |->
        Concat([b \in 1..Len(idxs) |->
            IF a < b
            THEN PairMatch(idxs[a], idxs[b], RowScore(d, idxs[a], idxs[b], cols, weights),
                           threshold)
            ELSE <<>>])])

\* the accepted pairs of all compared blocks
FuzzyMatches(d, blocks, cols, threshold, weights, max_pairs_per_block) ==
    Concat([b \in 1..Len(blocks) |->
            IF BlockCompared(blocks[b], max_pairs_per_block)
            THEN BlockMatches(d, blocks[b], cols, weights, threshold)
            ELSE <<>>])

\* the pairs (i_pos, j_pos) the comparison loops score: those of the compared blocks
ComparedPairs(blocks, max_pairs_per_block) ==
    UNION {{<<blocks[b][x], blocks[b][y]>> : x, y \in 1..Len(blocks[b])} :
              b \in {b \in 1..Len(blocks) : BlockCompared(blocks[b], max_pairs_per_block)}}
        \cap {p \in Nat \X Nat : p[1] < p[2]}

\* a group frame that carries the lowest score of the pairs inside the group
GroupFrame_m(g, members, group_pairs) ==
    [k \in 1..Len(members) |->
        DupRecord(members[k], g, "Hybrid Fuzzy",
                  LET worst == CHOOSE m \in Range(group_pairs) :
                                   \A o \in Range(group_pairs) : o.num >= m.num
                  IN  RoundDiv(worst.num * 100, worst.den),
                  "")]

\* the rows of one group, with the best score of the pairs inside the group
GroupFrame(g, members, group_pairs) ==
    [k \in 1..Len(members) |->
        DupRecord(members[k], g, "Hybrid Fuzzy",
                  LET best == CHOOSE m \in Range(group_pairs) :
                                  \A o \in Range(group_pairs) : o.num <= m.num
                  IN  RoundDiv(best.num * 100, best.den),
                  "")]

GroupOf(g, members, pair_df) ==
    IF Len(members) < 2 THEN <<>>
    ELSE GroupFrame(g, members,
             SelectSeq(pair_df, LAMBDA m : m.i \in Range(members) /\ m.j \in Range(members)))

\* members: the matched rows per union-find root, roots in the order the matched rows
\* are visited (a set of small ints iterates in ascending order), groups numbered from 1
GroupsByRoot(pair_df, root, all_matched, roots) ==
    Concat([g \in 1..Len(roots) |->
        GroupOf(g, SelectSeq(all_matched, LAMBDA x : root[x] = roots[g]), pair_df)])

GroupsOfRoots(pair_df, root, all_matched) ==
    GroupsByRoot(pair_df, root, all_matched,
                 FromKeys([k \in 1..Len(all_matched) |-> root[all_matched[k]]]))

GroupsOfParent(n, pair_df, parent) ==
    GroupsOfRoots(pair_df, [x \in 1..n |-> _find(parent, x)],
                  Positions(n, LAMBDA x :
                      \E k \in 1..Len(pair_df) : pair_df[k].i = x \/ pair_df[k].j = x))

GroupsOfPairs(n, pair_df) == GroupsOfParent(n, pair_df, UnionAll(n, pair_df))

\* the groups built from the accepted pairs
FuzzyGroups(d, matches) == GroupsOfPairs(n_rows(d), SortDesc(matches))

\* weights: the caller's, or equal weights when None (<<>>) or of another length
FuzzyWeights(cols, weights) ==
    IF weights = <<>> \/ Len(weights) # Len(cols) THEN [k \in 1..Len(cols) |-> 1] ELSE weights

LibWarning == IF rapidfuzz THEN <<>> ELSE <<"RapidFuzz not installed">>

NullWarning(ignore_nulls, dropped) ==
    IF ignore_nulls /\ dropped > 0
    THEN <<"skipped " \o ToString(dropped) \o " row(s) with null/blank values">>
    ELSE <<>>

SkipWarning(skipped_blocks) ==
    IF skipped_blocks > 0
    THEN <<ToString(skipped_blocks) \o " block(s) exceeded the pair limit">>
    ELSE <<>>

FuzzyOnBlocks(d, cols, threshold, w, max_pairs_per_block, warnings, blocks) ==
    [records  |-> FuzzyGroups(d, FuzzyMatches(d, blocks, cols, threshold, w,
                                              max_pairs_per_block)),
     warnings |-> warnings
                  \o SkipWarning(Cardinality({b \in 1..Len(blocks) :
                                     BlockSkipped(blocks[b], max_pairs_per_block)})),
     raised   |-> FALSE]

FuzzyOnWork(d, cols, threshold, w, max_pairs_per_block, warnings, work) ==
    IF work = <<>> THEN [records |-> <<>>, warnings |-> warnings, raised |-> FALSE]
    ELSE IF ~InDf(d, cols[1]) THEN [records |-> <<>>, warnings |-> warnings, raised |-> TRUE]
    ELSE FuzzyOnBlocks(d, cols, threshold, w, max_pairs_per_block, warnings,
                       FuzzyBlocks(d, work, cols[1]))

FuzzyFiltered(d, cols, threshold, w, max_pairs_per_block, ignore_nulls, work) ==
    FuzzyOnWork(d, cols, threshold, w, max_pairs_per_block,
                LibWarning \o NullWarning(ignore_nulls, n_rows(d) - Len(work)), work)

\* (dup_df, warnings_list); raised stands for the KeyError of work[first_col] when the
\* first fuzzy column is not a column of the dataset
detect_fuzzy_duplicates(d, cols, threshold, weights, max_pairs_per_block, ignore_nulls) ==
    IF cols = <<>> THEN [records |-> <<>>, warnings |-> <<>>, raised |-> FALSE]
    ELSE FuzzyFiltered(d, cols, threshold, FuzzyWeights(cols, weights), max_pairs_per_block,
                       ignore_nulls, FuzzyWork(d, cols, ignore_nulls))

----------------------------------------------------------------------------
(* execute_uniqueness_rules *)

\* drop_duplicates(subset=key columns, keep="first")
DropDuplicates(records, Key(_)) ==
    SelectSeq([k \in 1..Len(records) |->
                  [rec |-> records[k],
                   first |-> \A j \in 1..(k - 1) : Key(records[j]) # Key(records[k])]],
              LAMBDA x : x.first)

Recs(marked) == [k \in 1..Len(marked) |-> marked[k].rec]

\* a merge that keeps, of the entries of a row, the last one
MergeAllDups_m(all_dups) ==
    Recs(DropDuplicates([k \in 1..Len(all_dups) |-> all_dups[Len(all_dups) + 1 - k]],
                        LAMBDA r : r.Row_Number))

\* pd.concat(all_dups) and the two drop_duplicates of execute_uniqueness_rules
MergeAllDups(all_dups) ==
    LET by_type == Recs(DropDuplicates(all_dups, LAMBDA r : <<r.Row_Number, r.Duplicate_Type>>))
    IN  Recs(DropDuplicates(by_type, LAMBDA r : r.Row_Number))

UniqAnnexure(d, records, column_name, rule, fuzzy, cols, expected) ==
    [k \in 1..Len(records) |->
        [Row_Number     |-> records[k].Row_Number,
         Column_Name    |-> column_name,
         Rule_Applied   |-> rule,
         Issue_Type     |-> IF fuzzy
                            THEN "Fuzzy Dup (Group " \o ToString(records[k].Duplicate_Group_ID)
                                 \o ", " \o ToString(RoundDiv(records[k].Similarity_Score, 100))
                                 \o "%)"
                            ELSE "Duplicate (Group " \o ToString(records[k].Duplicate_Group_ID)
                                 \o ")",
         Original_Value |-> Join([c \in 1..Len(cols) |->
                                     d.rows[records[k].idx + 1][cols[c]]], <<" ", "|", " ">>),
         Expected_Value |-> expected,
         Dimension      |-> "Uniqueness"]]

\* " + ".join(cols)
ColumnsLabel(cols) ==
    LET F[i \in 0..Len(cols)] ==
            IF i = 0 THEN ""
            ELSE IF i = 1 THEN cols[1] ELSE F[i - 1] \o " + " \o cols[i]
    IN  F[Len(cols)]

\* u is the uniqueness configuration: single_cols, combo_cols, fuzzy_cols,
\* fuzzy_threshold, fuzzy_weights, fuzzy_max_pairs, fuzzy_ignore_nulls.

NoDups == [records |-> <<>>, annexure |-> <<>>, warnings |-> <<>>, raised |-> FALSE]

\* _single_targets
SingleTargets(d, u) == SelectSeq(u.single_cols, LAMBDA c : InDf(d, c))

\* the "Single Column Exact Match" branch
SingleBranch(d, selected_rules, u, targets) ==
    IF "Single Column Exact Match" \notin Range(selected_rules) THEN NoDups
    ELSE IF targets # <<>>
         THEN [NoDups EXCEPT
                  !.records = detect_exact_duplicates_multi_single(d, targets),
                  !.annexure = Concat([k \in 1..Len(targets) |->
                      UniqAnnexure(d, detect_exact_duplicates_single(d, targets[k]),
                                   targets[k], "Single Column Exact Duplicate", FALSE,
                                   <<targets[k]>>, "Unique value")])]
    ELSE IF u.single_cols # <<>>
         THEN [NoDups EXCEPT !.warnings =
                  <<"Single Column Exact Match: none of the specified columns were found">>]
    ELSE NoDups

\* the "Combination Column Exact Match" branch; raised: df[cols] fails on a column
\* the dataset does not have
ComboBranch(d, selected_rules, u) ==
    IF "Combination Column Exact Match" \notin Range(selected_rules) \/ Len(u.combo_cols) < 2
    THEN NoDups
    ELSE IF \E k \in 1..Len(u.combo_cols) : ~InDf(d, u.combo_cols[k])
         THEN [NoDups EXCEPT !.raised = TRUE]
    ELSE [NoDups EXCEPT !.records = detect_exact_duplicates_combination(d, u.combo_cols)]

\* the "Hybrid Fuzzy Match" branch; raised: work[first_col] fails likewise
FuzzyBranch(d, selected_rules, u) ==
    IF "Hybrid Fuzzy Match" \in Range(selected_rules) /\ u.fuzzy_cols # <<>>
    THEN detect_fuzzy_duplicates(d, u.fuzzy_cols, u.fuzzy_threshold, u.fuzzy_weights,
                                 u.fuzzy_max_pairs, u.fuzzy_ignore_nulls)
    ELSE [records |-> <<>>, warnings |-> <<>>, raised |-> FALSE]

\* the annexure rows of the branches and the merge of their frames
UniquenessResult(d, u, single, combo, fz) ==
    [dup_records |-> MergeAllDups(single.records \o combo.records \o fz.records),
     all_dups    |-> single.records \o combo.records \o fz.records,
     annexure    |-> single.annexure
                     \o UniqAnnexure(d, combo.records, ColumnsLabel(u.combo_cols),
                                     "Combination Column Exact Duplicate", FALSE, u.combo_cols,
                                     "Unique combination")
                     \o UniqAnnexure(d, fz.records, ColumnsLabel(u.fuzzy_cols),
                                     "Fuzzy Match (>=" \o ToString(u.fuzzy_threshold) \o "%)",
                                     TRUE, u.fuzzy_cols, "Unique record"),
     warnings    |-> single.warnings \o fz.warnings,
     raised      |-> combo.raised \/ fz.raised]

\* (dup_records, annexure, warnings); when raised holds the call ended in an exception
\* and the other fields are not returned
execute_uniqueness_rules(d, selected_rules, u) ==
    UniquenessResult(d, u,
                     SingleBranch(d, selected_rules, u, SingleTargets(d, u)),
                     ComboBranch(d, selected_rules, u),
                     FuzzyBranch(d, selected_rules, u))

----------------------------------------------------------------------------
(* Scoring engine *)

Entries(lg, dimension) == SelectSeq(lg, LAMBDA e : e.Dimension = dimension)

SumEvaluated(lg, dimension) ==
    SeqSum([k \in 1..Len(Entries(lg, dimension)) |-> Entries(lg, dimension)[k].Evaluated])

SumFailed(lg, dimension) ==
    SeqSum([k \in 1..Len(Entries(lg, dimension)) |-> Entries(lg, dimension)[k].Failed])

\* round(max(0.0, (total - failed) / total * 100), 2), in hundredths
Pct(total, failed) == IF failed > total THEN 0 ELSE RoundDiv((total - failed) * 10000, total)

\* None is <<>>
_score_from_log(lg, dimension) ==
    IF Entries(lg, dimension) = <<>> THEN <<>>
    ELSE IF SumEvaluated(lg, dimension) = 0 THEN <<>>
    ELSE <<Pct(SumEvaluated(lg, dimension), SumFailed(lg, dimension))>>

CountDim(annexure, dimension) ==
    Cardinality({k \in 1..Len(annexure) : annexure[k].Dimension = dimension})

compute_completeness_score(lg, d, annexure, columns, selected_rules, column_rule_map) ==
    LET log_score == _score_from_log(lg, "Completeness")
        failures == CountDim(annexure, "Completeness")
        active == SelectSeq(selected_rules, LAMBDA r : r # "Mandatory Column")
        n_pairs == IF column_rule_map # <<>> THEN Len(column_rule_map)
                   ELSE (IF active # <<>> THEN Len(active) * Len(columns) ELSE 0)
                        + (IF "Mandatory Column" \in Range(selected_rules) /\ columns # <<>>
                           THEN Len(columns) ELSE 0)
        total == n_pairs * n_rows(d)
    IN  IF n_rows(d) = 0 THEN 0
        ELSE IF log_score # <<>> THEN log_score[1]
        ELSE IF total = 0 THEN 0
        ELSE Pct(total, failures)

\* compute_validity_score and compute_standardization_score share this body
ScoreWithFallback(lg, d, annexure, columns, selected_rules, column_rule_map, dimension) ==
    LET log_score == _score_from_log(lg, dimension)
        failures == CountDim(annexure, dimension)
        n_pairs == IF column_rule_map # <<>> THEN Len(column_rule_map)
                   ELSE IF selected_rules # <<>> /\ columns # <<>>
                        THEN Len(selected_rules) * Len(columns) ELSE 0
        total == n_pairs * n_rows(d)
    IN  IF n_rows(d) = 0 THEN 0
        ELSE IF log_score # <<>> THEN log_score[1]
        ELSE IF total = 0 THEN 0
        ELSE Pct(total, failures)

compute_validity_score(lg, d, annexure, columns, selected_rules, column_rule_map) ==
    ScoreWithFallback(lg, d, annexure, columns, selected_rules, column_rule_map, "Validity")

compute_standardization_score(lg, d, annexure, columns, selected_rules, column_rule_map) ==
    ScoreWithFallback(lg, d, annexure, columns, selected_rules, column_rule_map,
                      "Standardization")

RowNumbers(records) == {records[k].Row_Number : k \in 1..Len(records)}

\* dup_records["Row_Number"].nunique()
DistinctRows(dup_records) == Cardinality(RowNumbers(dup_records))

\* a score that takes one flagged row as the original and does not count it
compute_uniqueness_score_m(d, dup_records) ==
    LET total == n_rows(d)
        dup_count == DistinctRows(dup_records) - 1
    IN  IF total = 0 THEN [score |-> 0, entries |-> <<>>]
        ELSE IF dup_records = <<>> THEN [score |-> 10000, entries |-> <<>>]
        ELSE [score |-> Pct(total, dup_count), entries |-> <<>>]

\* the score and the audit entries compute_uniqueness_score appends
compute_uniqueness_score(d, dup_records) ==
    LET total == n_rows(d)
        nunique == DistinctRows(dup_records)
        dup_count == IF nunique < total THEN nunique ELSE total
    IN  IF total = 0 THEN [score |-> 0, entries |-> <<>>]
        ELSE IF dup_records = <<>>
             THEN [score |-> 10000,
                   entries |-> <<LogEntry("Uniqueness", "ALL", "Exact/Fuzzy Duplicate Check",
                                          total, 0)>>]
        ELSE [score |-> Pct(total, dup_count),
              entries |-> <<LogEntry("Uniqueness", "ALL", "Exact/Fuzzy Duplicate Check",
                                     total, dup_count)>>]

\* dim_scores is a function from the dimensions scored to their scores
compute_overall_score(dim_scores) ==
    LET dims == DOMAIN dim_scores
        SumOver[S \in SUBSET dims] ==
            IF S = {} THEN 0
            ELSE LET x == CHOOSE x \in S : TRUE IN dim_scores[x] + SumOver[S \ {x}]
    IN  IF dims = {} THEN 0 ELSE RoundDiv(SumOver[dims], Cardinality(dims))

----------------------------------------------------------------------------
(* Annexure groups and the pre-export validation of generate_excel_report *)

_merge_dup_records(dup_records) == Recs(DropDuplicates(dup_records, LAMBDA r : r.Row_Number))

_SKIP_DIMS == {"Uniqueness"}

_DIM_LABELS == {"Completeness", "Validity", "Standardization", "Uniqueness",
                "Confusion Check", "Missing Values", "Invalid Format",
                "Duplicate Records", "Non-Standard Values"}

\* the annexure records that enter rule_rows
GroupedRecords(d, all_annexure) ==
    SelectSeq(all_annexure, LAMBDA rec :
        /\ rec.Dimension \notin _SKIP_DIMS
        /\ rec.Rule_Applied # "" /\ rec.Rule_Applied \notin _DIM_LABELS
        /\ rec.Row_Number - 2 >= 0 /\ rec.Row_Number - 2 < n_rows(d))

\* sorted(indices): the distinct 0-based rows recorded under label, ascending
RowIndices(d, recs, label) ==
    LET idxs == {recs[k].Row_Number - 2 : k \in {k \in 1..Len(recs) : recs[k].Rule_Applied = label}}
    IN  [k \in 1..Cardinality(idxs) |->
            CHOOSE x \in idxs : Cardinality({y \in idxs : y < x}) = k - 1]

RuleGroup(d, recs, label) ==
    [rule_label |-> label, row_indices |-> RowIndices(d, recs, label),
     is_duplicate |-> FALSE, row_count |-> Len(RowIndices(d, recs, label))]

\* groups left in the order their labels first appear
SortByCount_m(gs) == gs

\* groups.sort(key=row_count, reverse=True): stable, larger counts first
RECURSIVE SortByCount(_)
SortByCount(gs) ==
    IF gs = <<>> THEN <<>>
    ELSE LET rest == SortByCount(SubSeq(gs, 1, Len(gs) - 1))
             g == gs[Len(gs)]
             k == Cardinality({i \in 1..Len(rest) : rest[i].row_count >= g.row_count})
         IN  SubSeq(rest, 1, k) \o <<g>> \o SubSeq(rest, k + 1, Len(rest))

_build_annexure_groups(d, all_annexure, dup_records_clean) ==
    LET recs == GroupedRecords(d, all_annexure)
        labels == FromKeys([k \in 1..Len(recs) |-> recs[k].Rule_Applied])
        groups == SortByCount([k \in 1..Len(labels) |-> RuleGroup(d, recs, labels[k])])
    IN  IF dup_records_clean # <<>>
        THEN Append(groups, [rule_label |-> "Duplicates", row_indices |-> <<>>,
                             is_duplicate |-> TRUE, row_count |-> Len(dup_records_clean)])
        ELSE groups

\* a validation that does not skip the duplicate group
_validate_summary_counts_m(groups) ==
    \A i \in 1..Len(groups) : groups[i].row_count = Len(groups[i].row_indices)

\* TRUE when no ValueError is raised: every group that is not the duplicate group
\* declares the length of its row_indices
_validate_summary_counts(groups) ==
    \A i \in 1..Len(groups) :
        groups[i].is_duplicate \/ groups[i].row_count = Len(groups[i].row_indices)

\* sorted(entry["dims"]): the dimension names in alphabetical order
SortedDims(dims) ==
    SelectSeq(<<"Completeness", "Standardization", "Uniqueness", "Validity">>,
              LAMBDA x : x \in dims)

\* the entry of row_idx built from the records `recs` of the row, in annexure order;
\* the labels the executors write carry no outer whitespace, so strip() leaves them
RowIssueEntry(recs) ==
    [issues      |-> FromKeys([k \in 1..Len(recs) |-> recs[k].Rule_Applied]),
     issue_count |-> Len(FromKeys([k \in 1..Len(recs) |-> recs[k].Rule_Applied])),
     categories  |-> SortedDims({recs[k].Dimension : k \in 1..Len(recs)})]

\* the map over the records `kept`, keyed by the 0-based row index Row_Number - 2
RowIssueMap(d, kept) ==
    [row_idx \in {kept[k].Row_Number - 2 : k \in 1..Len(kept)} \cap 0..(n_rows(d) - 1) |->
        RowIssueEntry(SelectSeq(kept, LAMBDA rec : rec.Row_Number - 2 = row_idx))]

\* a map that scans the uniqueness records as well
_build_row_issue_map_m(d, all_annexure) == RowIssueMap(d, all_annexure)

\* records of the dimensions in _DIM_SKIP are passed over
_build_row_issue_map(d, all_annexure) ==
    RowIssueMap(d, SelectSeq(all_annexure, LAMBDA rec : rec.Dimension # "Uniqueness"))

\* the groups built, and whether the workbook was written or the validation raised
generate_excel_report(d, dup_records, all_annexure) ==
    LET dup_clean == _merge_dup_records(dup_records)
        groups == _build_annexure_groups(d, all_annexure, dup_clean)
    IN  [groups    |-> groups,
         dup_clean |-> dup_clean,
         row_issue_map |-> _build_row_issue_map(d, all_annexure),
         written   |-> _validate_summary_counts(groups)]

----------------------------------------------------------------------------
(* Clean dataset builder *)

\* keep_rows: the lowest Row_Number of the records of each Duplicate_Group_ID
KeepRows(dup_records) ==
    {CHOOSE r \in RowNumbers(SelectSeq(dup_records, LAMBDA x : x.Duplicate_Group_ID = gid)) :
         \A q \in RowNumbers(SelectSeq(dup_records, LAMBDA x : x.Duplicate_Group_ID = gid)) :
             r <= q :
     gid \in {dup_records[k].Duplicate_Group_ID : k \in 1..Len(dup_records)}}

\* remove_indices: the 0-based indices of the duplicate rows that are not kept
RemoveIndices(base, dup_records) ==
    {r - 2 : r \in RowNumbers(dup_records) \ KeepRows(dup_records)}
        \cap 0..(n_rows(base) - 1)

\* base is the standardized frame when there is one (None is <<>>), else the dataset;
\* kept: the 1-based positions in base of the rows of the result, rows: those rows
\* with their Issue_Flag, in the order reset_index leaves them
build_clean_dataset(d, standardized_df, dup_records, all_annexure) ==
    LET base == IF standardized_df # <<>> THEN standardized_df[1] ELSE d
        kept == Positions(n_rows(base), LAMBDA i : (i - 1) \notin RemoveIndices(base, dup_records))
    IN  [columns |-> Append(base.columns, "Issue_Flag"),
         kept    |-> kept,
         rows    |-> [k \in 1..Len(kept) |->
                         [c \in DOMAIN base.rows[kept[k]] \cup {"Issue_Flag"} |->
                             IF c = "Issue_Flag"
                             THEN IF (kept[k] + 1) \in RowNumbers(all_annexure)
                                  THEN "Yes" ELSE "No"
                             ELSE base.rows[kept[k]][c]]]]

----------------------------------------------------------------------------
(* The assessment handler: _extract_rules_cfg and _run_dq_assessment of app.py *)

OfDimension(rule_entries, dim) == SelectSeq(rule_entries, LAMBDA r : r.dimension = dim)

RuleNames(entries) == FromKeys([k \in 1..Len(entries) |-> entries[k].rule])

ColumnNames(entries) == FromKeys([k \in 1..Len(entries) |-> entries[k].column])

\* the config value of the first entry that has key, else default
FirstConfig(entries, key, default) ==
    LET with == SelectSeq(entries, LAMBDA r : Has(r.config, key))
    IN  IF with = <<>> THEN default ELSE with[1].config[key]

\* the config value of the last entry that has key, else default
LastConfig(entries, key, default) ==
    LET with == SelectSeq(entries, LAMBDA r : Has(r.config, key))
    IN  IF with = <<>> THEN default ELSE with[Len(with)].config[key]

DefaultMinLength == 3

\* rules_by_dim and merged_cfg, with the defaults _run_dq_assessment reads them with
_extract_rules_cfg(rule_entries) ==
    LET comp == OfDimension(rule_entries, "Completeness")
        val  == OfDimension(rule_entries, "Validity")
        std  == OfDimension(rule_entries, "Standardization")
        mand == SelectSeq(comp, LAMBDA r : r.mandatory \/ r.rule = "Mandatory Column")
    IN  [comp_rules         |-> RuleNames(comp),
         comp_columns       |-> ColumnNames(comp),
         min_length_val     |-> FirstConfig(comp, "min_length_val", DefaultMinLength),
         mandatory_cols     |-> [k \in 1..Len(mand) |-> mand[k].column],
         val_rules          |-> RuleNames(val),
         val_columns        |-> ColumnNames(val),
         allowed_values_str |-> LastConfig(val, "allowed_values_str", <<>>),
         std_rules          |-> RuleNames(std),
         std_columns        |-> ColumnNames(std),
         null_default       |-> LastConfig(std, "null_default", DefaultNullDefault)]

\* {"column", "rule", "config"} of the rule entries of one dimension
ColumnRuleMap(rule_entries, dim) ==
    LET es == OfDimension(rule_entries, dim)
    IN  [k \in 1..Len(es) |-> [column |-> es[k].column, rule |-> es[k].rule,
                                config |-> es[k].config]]

\* _ui_uniqueness, "Build rules list + cfg for the engine": the rule names and the
\* configuration built from the exact and fuzzy duplicate rules of the session.  Only
\* the first combination rule and the first fuzzy rule reach the engine.  The values
\* of keys that are not set are the defaults _run_dq_assessment reads them with.
_ui_uniqueness(exact_rules, fuzzy_rules) ==
    LET singles == SelectSeq(exact_rules, LAMBDA r : r.type = "Single Column Exact Match")
        combos  == SelectSeq(exact_rules, LAMBDA r : r.type # "Single Column Exact Match")
        exact_names == FromKeys([k \in 1..Len(exact_rules) |-> exact_rules[k].type])
    IN  [rules |-> exact_names
                   \o (IF fuzzy_rules # <<>> THEN <<"Hybrid Fuzzy Match">> ELSE <<>>),
         cfg   |-> [single_cols |-> FromKeys(Concat([k \in 1..Len(singles) |-> singles[k].cols])),
                    combo_cols  |-> IF combos # <<>> THEN combos[1].cols ELSE <<>>,
                    fuzzy_cols  |-> IF fuzzy_rules # <<>> THEN fuzzy_rules[1].cols ELSE <<>>,
                    fuzzy_threshold |->
                        IF fuzzy_rules # <<>> THEN fuzzy_rules[1].threshold ELSE 80,
                    fuzzy_weights |->
                        IF fuzzy_rules # <<>> THEN fuzzy_rules[1].weights ELSE <<>>,
                    fuzzy_max_pairs |->
                        IF fuzzy_rules # <<>> THEN fuzzy_rules[1].max_pairs ELSE 20000,
                    fuzzy_ignore_nulls |->
                        IF fuzzy_rules # <<>> THEN fuzzy_rules[1].ignore_nulls ELSE TRUE]]

\* The handler's locals while it runs: the audit log, all_annexure, dim_scores,
\* dup_records, standardized_df, the warnings of the uniqueness rules, and whether an
\* exception has ended the try block.
Locals(lg, d) ==
    [log |-> lg, all_annexure |-> <<>>, dim_scores |-> <<>>, dup_records |-> <<>>,
     standardized |-> d, warnings |-> <<>>, raised |-> FALSE]

\* dim_scores[dim] = score
SetScore(dim_scores, dim, score) ==
    [x \in DOMAIN dim_scores \cup {dim} |-> IF x = dim THEN score ELSE dim_scores[x]]

\* Completeness: the legacy path, no column_rule_map is passed
CompletenessDone(acc, d, m, ca) ==
    [acc EXCEPT
        !.log = @ \o ca.entries,
        !.all_annexure = @ \o ca.annexure,
        !.dim_scores = SetScore(@, "Completeness",
            compute_completeness_score(acc.log \o ca.entries, d, ca.annexure,
                                       m.comp_columns, m.comp_rules, <<>>))]

CompletenessStage(acc, d, m) ==
    IF m.comp_rules = <<>> THEN acc
    ELSE CompletenessDone(acc, d, m,
             execute_completeness_rules(d, m.comp_rules, m.comp_columns, m.min_length_val,
                                        m.mandatory_cols, <<>>))

\* Validity: the column_rule_map built from the rule entries
ValidityDone(acc, d, m, va) ==
    IF va.raised THEN [acc EXCEPT !.log = @ \o va.entries, !.raised = TRUE]
    ELSE
    [acc EXCEPT
        !.log = @ \o va.entries,
        !.all_annexure = @ \o va.annexure,
        !.dim_scores = SetScore(@, "Validity",
            compute_validity_score(acc.log \o va.entries, d, va.annexure,
                                   m.val_columns, m.val_rules, <<>>))]

ValidityStage(acc, d, c, m) ==
    IF m.val_rules = <<>> THEN acc
    ELSE ValidityDone(acc, d, m,
             execute_validity_rules(d, m.val_rules, m.val_columns, m.allowed_values_str,
                                    ColumnRuleMap(c.rule_entries, "Validity")))

\* Uniqueness.  The handler's de-duplication by index and its cap at len(df) leave
\* dup_records as returned: its index and its Row_Number are unique.
UniquenessScored(acc, ur, us) ==
    [acc EXCEPT
        !.log = @ \o us.entries,
        !.all_annexure = @ \o ur.annexure,
        !.dim_scores = SetScore(@, "Uniqueness", us.score),
        !.dup_records = ur.dup_records,
        !.warnings = ur.warnings]

UniquenessDone(acc, d, ur) ==
    IF ur.raised THEN [acc EXCEPT !.raised = TRUE]
    ELSE UniquenessScored(acc, ur, compute_uniqueness_score(d, ur.dup_records))

UniquenessStage(acc, d, uq) ==
    IF acc.raised \/ uq.rules = <<>> THEN acc
    ELSE UniquenessDone(acc, d, execute_uniqueness_rules(d, uq.rules, uq.cfg))

\* Standardization: the column_rule_map built from the rule entries
StandardizationDone(acc, d, m, sr) ==
    [acc EXCEPT
        !.log = @ \o sr.entries,
        !.all_annexure = @ \o sr.annexure,
        !.standardized = sr.cleaned,
        !.dim_scores = SetScore(@, "Standardization",
            compute_standardization_score(acc.log \o sr.entries, d, sr.annexure,
                                          m.std_columns, m.std_rules, <<>>))]

StandardizationStage(acc, d, c, m) ==
    IF acc.raised \/ m.std_rules = <<>> THEN acc
    ELSE StandardizationDone(acc, d, m,
             execute_standardization_rules(d, m.std_rules, m.std_columns, m.null_default,
                                           ColumnRuleMap(c.rule_entries, "Standardization")))

\* what the handler leaves: the audit log and the result of the run.  status is "raised"
\* when a detector raised, "invalid" when the validation of generate_excel_report did
\* (either way the except branch shows the error and stores nothing), "ok" when the
\* report was written.
Outcome(lg, acc, report) ==
    [log |-> acc.log,
     result |->
        IF acc.raised
        THEN [status |-> "raised", log_start |-> Len(lg), all_annexure |-> <<>>,
              dim_scores |-> <<>>, overall |-> 0, dup_records |-> <<>>, groups |-> <<>>,
              standardized |-> acc.standardized, warnings |-> <<>>,
              row_issue_map |-> <<>>]
        ELSE [status |-> IF report.written THEN "ok" ELSE "invalid",
              log_start |-> Len(lg), all_annexure |-> acc.all_annexure,
              dim_scores |-> acc.dim_scores,
              overall |-> compute_overall_score(acc.dim_scores),
              dup_records |-> acc.dup_records, groups |-> report.groups,
              standardized |-> acc.standardized, warnings |-> acc.warnings,
              row_issue_map |-> report.row_issue_map]]

Finish(lg, d, acc) ==
    Outcome(lg, acc, generate_excel_report(d, acc.dup_records, acc.all_annexure))

Stages(lg, d, c, m, uq) ==
    Finish(lg, d,
        StandardizationStage(
            UniquenessStage(
                ValidityStage(CompletenessStage(Locals(lg, d), d, m), d, c, m),
                d, uq),
            d, c, m))

\* One call of _run_dq_assessment on dataset d with the session's rules c, from audit
\* log lg.  Every dimension is selected; a dimension runs when it has rules.
RunAssessment(lg, d, c) ==
    Stages(lg, d, c, _extract_rules_cfg(c.rule_entries),
           _ui_uniqueness(c.exact_rules, c.fuzzy_rules))

----------------------------------------------------------------------------
(* Inputs of the assessment session *)

RunColumns == <<"name", "city">>

\* cells as load_dataset yields them: an empty cell reads as "nan" or ""
RowA == [name |-> <<"a", "b">>, city |-> <<"x">>]

\* the name of RowA up to case and blanks, no city
RowB == [name |-> <<" ", "A", "B">>, city |-> <<>>]

\* no name, no city
RowC == [name |-> <<>>, city |-> <<"n", "a", "n">>]

RunRows == {RowA, RowB, RowC}

\* the uploads of the session: those of at most MaxRows rows
Datasets ==
    {[columns |-> RunColumns, rows |-> rs] :
        rs \in {rs \in {<<>>, <<RowA>>, <<RowC>>, <<RowA, RowB>>, <<RowC, RowC>>,
                         <<RowA, RowC>>, <<RowA, RowB, RowC>>, <<RowA, RowA, RowB>>,
                         <<RowC, RowA, RowB, RowA>>} : Len(rs) <= MaxRows}}

NoConfig == <<>>

Entry(column, dimension, rule, config, mandatory) ==
    [column |-> column, dimension |-> dimension, rule |-> rule, config |-> config,
     mandatory |-> mandatory]

AllowedY == Entry("city", "Validity", "Allowed Values",
                  [allowed_values_str |-> <<"y">>], FALSE)

ExactRule(cols) ==
    [cols |-> cols,
     type |-> IF Len(cols) = 1 THEN "Single Column Exact Match"
              ELSE "Combination Column Exact Match"]

FuzzyRule(cols) ==
    [cols |-> cols, weights |-> [k \in 1..Len(cols) |-> 1], threshold |-> 85,
     max_pairs |-> 20000, ignore_nulls |-> TRUE]

\* Rule mappings and duplicate rules of the session.  They outlive the upload they were
\* added for, so a rule may name a column ("ghost") the dataset of the run does not
\* have; the same mapping may be added twice.
RunConfigs ==
    { \* one rule on one column
      [rule_entries |-> <<Entry("name", "Completeness", "Not Null", NoConfig, FALSE)>>,
       exact_rules |-> <<>>, fuzzy_rules |-> <<>>],
      \* rules whose columns the dataset does not have, and one whose column it has
      [rule_entries |-> <<Entry("ghost", "Completeness", "Not Null", NoConfig, FALSE),
                          AllowedY>>,
       exact_rules |-> <<ExactRule(<<"ghost">>)>>, fuzzy_rules |-> <<>>],
      \* every dimension, one mapping added twice
      [rule_entries |-> <<Entry("name", "Completeness", "Not Null", NoConfig, FALSE),
                          Entry("city", "Completeness", "Not Null", NoConfig, FALSE),
                          AllowedY, AllowedY,
                          Entry("name", "Standardization", "Trim Spaces", NoConfig, FALSE),
                          Entry("name", "Standardization", "Convert to Lowercase",
                                NoConfig, FALSE)>>,
       exact_rules |-> <<ExactRule(<<"name">>)>>,
       fuzzy_rules |-> <<FuzzyRule(<<"name">>)>>],
      \* configured rules and a combination rule
      [rule_entries |-> <<Entry("name", "Completeness", "Minimum Length",
                                [min_length_val |-> 3, mandatory |-> TRUE], TRUE),
                          Entry("city", "Standardization", "Replace Null with Default",
                                [null_default |-> <<"N", "/", "A">>], FALSE)>>,
       exact_rules |-> <<ExactRule(<<"name", "city">>)>>, fuzzy_rules |-> <<>>],
      \* a fuzzy rule whose column the dataset does not have
      [rule_entries |-> <<Entry("name", "Completeness", "Not Null", NoConfig, FALSE)>>,
       exact_rules |-> <<>>, fuzzy_rules |-> <<FuzzyRule(<<"ghost">>)>>],
      \* a rule that few rows fail ahead of one that more rows fail
      [rule_entries |-> <<Entry("city", "Completeness", "Not Null", NoConfig, FALSE),
                          Entry("name", "Validity", "Allowed Values",
                                [allowed_values_str |-> <<"y">>], FALSE)>>,
       exact_rules |-> <<ExactRule(<<"name">>)>>, fuzzy_rules |-> <<>>],
      \* two columns, each with a completeness rule of its own
      [rule_entries |-> <<Entry("name", "Completeness", "Not Null", NoConfig, FALSE),
                          Entry("city", "Completeness", "Not Empty", NoConfig, FALSE)>>,
       exact_rules |-> <<>>, fuzzy_rules |-> <<>>] }

NoDataset == [columns |-> RunColumns, rows |-> <<>>]

NoRun == [status |-> "none", log_start |-> 0, all_annexure |-> <<>>, dim_scores |-> <<>>,
          overall |-> 0, dup_records |-> <<>>, groups |-> <<>>, standardized |-> NoDataset,
          warnings |-> <<>>, row_issue_map |-> <<>>]

\* compared: the pairs of rows (1-based) the fuzzy detector scored; all_dups: the frames
\* of the rules of one execute_uniqueness_rules call, concatenated, before the merge;
\* clean: the positions of the rows build_clean_dataset keeps
NoDetection == [kind |-> "none", cols |-> <<>>, threshold |-> 0, weights |-> <<>>,
                ignore_nulls |-> TRUE, max_pairs |-> 0, rules |-> <<>>, records |-> <<>>,
                annexure |-> <<>>, flagged |-> {}, total |-> 0, score |-> 0,
                warnings |-> <<>>, compared |-> {}, all_dups |-> <<>>, clean |-> <<>>]

NoArgs == [selected_rules |-> <<>>, columns |-> <<>>, mandatory_cols |-> <<>>,
           column_rule_map |-> <<>>]

\* no executor called yet.  args: the arguments of the call; annexure, warnings: what
\* it returned; entries: the audit entries it appended; raised: it ended in an
\* exception; cleaned: the frame execute_standardization_rules returned; steps, trace,
\* reported: the standardization steps taken, the cleaned frame after each and the
\* 1-based rows each reported
NoCall == [kind |-> "none", args |-> NoArgs, annexure |-> <<>>, entries |-> <<>>,
           warnings |-> <<>>, raised |-> FALSE, cleaned |-> NoDataset,
           steps |-> <<>>, trace |-> <<>>, reported |-> <<>>]

NoWorkers == <<>>

\* scores a string scorer can return for two different strings
ScoreLevels == {0, 90}

\* the pairs of values the scorers may be asked about: two different values, or the
\* empty string twice
ScorePairs(values) ==
    {{x, y} : x \in values, y \in values} \ {{x} : x \in values \ {<<>>}}

NormalizedNames(rows) == {Normalize(r.name) : r \in rows}

----------------------------------------------------------------------------
(* The assessment session: runs of _run_dq_assessment in one server process *)

Init ==
    /\ log = <<>>
    /\ df = NoDataset
    /\ cfg = [rule_entries |-> <<>>, exact_rules |-> <<>>, fuzzy_rules |-> <<>>]
    /\ run = NoRun
    /\ rerun = <<>>
    /\ fuzz \in [ScorePairs(NormalizedNames(RunRows) \ _NULL_SENTINELS) -> ScoreLevels]
    /\ rapidfuzz \in BOOLEAN
    /\ det = NoDetection
    /\ call = NoCall
    /\ workers = NoWorkers

\* The user uploads dataset d, has the rules c configured and presses Run.
Run(d, c) ==
    /\ Len(log) <= MaxLog
    /\ LET r == RunAssessment(log, d, c)
       IN  /\ log' = r.log
           /\ run' = r.result
    /\ df' = d
    /\ cfg' = c
    /\ rerun' = <<>>
    /\ UNCHANGED <<fuzz, rapidfuzz, det, call, workers>>

\* The user presses Run again, dataset and rules unchanged.
RunAgain ==
    /\ run.status # "none"
    /\ rerun = <<>>
    /\ LET r == RunAssessment(log, df, cfg)
       IN  /\ log' = r.log
           /\ run' = r.result
    /\ rerun' = <<run>>
    /\ UNCHANGED <<df, cfg, fuzz, rapidfuzz, det, call, workers>>

Next ==
    \/ \E d \in Datasets, c \in RunConfigs : Run(d, c)
    \/ RunAgain

Spec == Init /\ [][Next]_vars

----------------------------------------------------------------------------
(* Properties of the assessment session *)

\* the audit entries appended during the last run
RunEntries == SubSeq(log, run.log_start + 1, Len(log))

\* the dimensions scored from the audit log
LogDims == {"Completeness", "Validity", "Standardization"}

RunUniqueness == _ui_uniqueness(cfg.exact_rules, cfg.fuzzy_rules)

\* a duplicate rule of the last run had its columns in the dataset
UniquenessRan ==
    \/ /\ "Single Column Exact Match" \in Range(RunUniqueness.rules)
       /\ SingleTargets(df, RunUniqueness.cfg) # <<>>
    \/ /\ "Combination Column Exact Match" \in Range(RunUniqueness.rules)
       /\ Len(RunUniqueness.cfg.combo_cols) >= 2
    \/ /\ "Hybrid Fuzzy Match" \in Range(RunUniqueness.rules)
       /\ RunUniqueness.cfg.fuzzy_cols # <<>>

\* a (column, rule) pair of the dimension was evaluated in the last run
DimEvaluated(dim) ==
    IF dim = "Uniqueness" THEN UniquenessRan ELSE Entries(RunEntries, dim) # <<>>

\* C1: a dimension of which no (column, rule) pair was evaluated in the run is never
\* given the score 100 by the score functions.
C1_NoHundredUnevaluated ==
    run.status = "ok" =>
        \A dim \in DOMAIN run.dim_scores :
            ~DimEvaluated(dim) => run.dim_scores[dim] # 10000

\* C2: when the audit log holds an entry of Completeness, Validity or Standardization,
\* the sum of Evaluated over the entries of the dimension is the number of dataset
\* rows times the number of (column, rule) pairs evaluated for it, and the score is
\* 100 x (sum of Evaluated - sum of Failed) / (sum of Evaluated).
C2_ScoreFromEntries ==
    run.status = "ok" =>
        \A dim \in LogDims \cap DOMAIN run.dim_scores :
            Entries(log, dim) # <<>> =>
                /\ SumEvaluated(log, dim) = n_rows(df) * Len(Entries(RunEntries, dim))
                /\ SumEvaluated(log, dim) > 0 =>
                       run.dim_scores[dim] =
                           RoundDiv((SumEvaluated(log, dim) - SumFailed(log, dim)) * 10000,
                                    SumEvaluated(log, dim))

\* C3: when a run starts executing rules the audit log holds no entry of an earlier
\* run, so the log a run leaves holds the entries of that run only.
C3_LogScopedToRun ==
    run.status # "none" => run.log_start = 0 /\ log = RunEntries

SameRule(e, f) == e.Dimension = f.Dimension /\ e.Column = f.Column /\ e.Rule = f.Rule

\* the issue records of the last run for the column and rule label of audit entry e
IssueRecords(e) ==
    {j \in 1..Len(run.all_annexure) :
        /\ run.all_annexure[j].Dimension = e.Dimension
        /\ run.all_annexure[j].Column_Name = e.Column
        /\ run.all_annexure[j].Rule_Applied = e.Rule}

\* C4: every (column, rule) pair the completeness, validity and standardization
\* executors evaluate has exactly one audit entry, with Evaluated the number of dataset
\* rows, and the issue records of that column and rule label number its Failed count.
C4_OneEntryPerPair ==
    run.status = "ok" =>
        \A k \in 1..Len(RunEntries) :
            RunEntries[k].Dimension \in LogDims =>
                /\ \A j \in 1..Len(RunEntries) : SameRule(RunEntries[j], RunEntries[k]) => j = k
                /\ RunEntries[k].Evaluated = n_rows(df)
                /\ Cardinality(IssueRecords(RunEntries[k])) = RunEntries[k].Failed

GroupConsistent(g) == g.row_count = Len(g.row_indices)

RuleRecords == SelectSeq(run.all_annexure, LAMBDA rec : rec.Dimension # "Uniqueness")

\* the rows of the dataset (0-based) with an issue record under the rule label
FailingRows(label) ==
    {RuleRecords[k].Row_Number - 2 :
        k \in {k \in 1..Len(RuleRecords) : RuleRecords[k].Rule_Applied = label}}

RuleGroups == {i \in 1..Len(run.groups) : ~run.groups[i].is_duplicate}

DupGroups == {i \in 1..Len(run.groups) : run.groups[i].is_duplicate}

C15_HundredIffNoFailure ==
    run.status = "ok" =>
        \A dim \in DOMAIN run.dim_scores :
            /\ run.dim_scores[dim] \in 0..10000
            /\ run.dim_scores[dim] = 10000 <=> SumFailed(log, dim) = 0

\* C9: the overall score is the mean of the scores of the dimensions evaluated in the
\* run; a dimension that was not evaluated is left out of the mean.
C9_MeanOfEvaluated ==
    run.status = "ok" =>
        \/ \A dim \in DOMAIN run.dim_scores : ~DimEvaluated(dim)
        \/ run.overall =
               compute_overall_score(
                   [dim \in {x \in DOMAIN run.dim_scores : DimEvaluated(x)} |->
                       run.dim_scores[dim]])

\* C10: a second run on the unchanged dataset and rules yields the issue records, the
\* duplicate records, the dimension scores and the overall score of the first.
C10_RerunIdentical ==
    rerun # <<>> =>
        /\ Range(run.all_annexure) = Range(rerun[1].all_annexure)
        /\ Range(run.dup_records) = Range(rerun[1].dup_records)
        /\ run.dim_scores = rerun[1].dim_scores
        /\ run.overall = rerun[1].overall

\* the labels an audit entry or issue record carries for a configured rule
ConfiguredLabels(rule) ==
    IF rule = "Minimum Length"
    THEN {"Minimum Length (" \o ToString(n) \o ")" : n \in 0..9}
    ELSE {rule}

\* the (column, rule) pair was configured as a completeness rule of the session
ConfiguredPair(column, label) ==
    \E k \in 1..Len(cfg.rule_entries) :
        /\ cfg.rule_entries[k].dimension = "Completeness"
        /\ cfg.rule_entries[k].column = column
        /\ label \in ConfiguredLabels(cfg.rule_entries[k].rule)

\* C21: in a run a completeness rule is evaluated and audit-logged, and raises issue
\* records, for a column only if that (column, rule) pair was configured; a rule
\* configured for one column is not applied to a column configured with another rule.
C21_OnlyConfiguredPairs ==
    run.status = "ok" =>
        /\ \A k \in 1..Len(RunEntries) :
               RunEntries[k].Dimension = "Completeness"
                   => ConfiguredPair(RunEntries[k].Column, RunEntries[k].Rule)
        /\ \A j \in 1..Len(run.all_annexure) :
               run.all_annexure[j].Dimension = "Completeness"
                   => ConfiguredPair(run.all_annexure[j].Column_Name,
                                     run.all_annexure[j].Rule_Applied)

\* the issue records of dataset row i (1-based) outside the uniqueness dimension, as
\* positions in the annexure
RowRecords(i) ==
    {j \in 1..Len(run.all_annexure) :
        /\ run.all_annexure[j].Row_Number = i + 1
        /\ run.all_annexure[j].Dimension # "Uniqueness"}

RowLabels(i) == {run.all_annexure[j].Rule_Applied : j \in RowRecords(i)}

\* the place of the first record of row i that carries the label
FirstRecord(i, label) ==
    CHOOSE j \in RowRecords(i) :
        /\ run.all_annexure[j].Rule_Applied = label
        /\ \A h \in RowRecords(i) : run.all_annexure[h].Rule_Applied = label => j <= h

\* C27: the row-issue map has an entry for dataset row r exactly when r has an issue
\* record outside the uniqueness dimension; the labels of the entry are the distinct
\* rule labels of the records of r in the order they first occur, issue_count is
\* their number, the categories are the distinct dimensions of the records, and
\* uniqueness records contribute to no entry.
C27_RowIssueMap ==
    run.status \in {"ok", "invalid"} =>
        /\ DOMAIN run.row_issue_map = {i - 1 : i \in {i \in 1..n_rows(df) : RowRecords(i) # {}}}
        /\ \A i \in 1..n_rows(df) :
               RowRecords(i) # {} =>
                   LET entry == run.row_issue_map[i - 1]
                   IN  /\ Range(entry.issues) = RowLabels(i)
                       /\ Len(entry.issues) = Cardinality(RowLabels(i))
                       /\ entry.issue_count = Cardinality(RowLabels(i))
                       /\ \A a, b \in 1..Len(entry.issues) :
                              a < b => FirstRecord(i, entry.issues[a])
                                           < FirstRecord(i, entry.issues[b])
                       /\ Range(entry.categories) =
                              {run.all_annexure[j].Dimension : j \in RowRecords(i)}
                       /\ Len(entry.categories) = Cardinality(Range(entry.categories))

\* a row with two records of one label has an entry of one label, a row with records
\* of two dimensions an entry of several labels, and both rows have uniqueness
\* records as well
C27_Witness ==
    /\ run.status = "ok"
    /\ \E i, k \in 1..n_rows(df) :
           /\ Cardinality(RowRecords(i)) = 2 /\ run.row_issue_map[i - 1].issue_count = 1
           /\ run.row_issue_map[k - 1].issue_count >= 2
           /\ Len(run.row_issue_map[k - 1].categories) = 2
           /\ \A r \in {i, k} :
                  \E j \in 1..Len(run.all_annexure) :
                      /\ run.all_annexure[j].Dimension = "Uniqueness"
                      /\ run.all_annexure[j].Row_Number = r + 1

----------------------------------------------------------------------------
(* The duplicate detectors as functions of a dataset: one call on each dataset *)

SeqsUpTo(S, n) == UNION {[1..k -> S] : k \in 0..n}

\* three names of one block, the first of them in another city as well and once more
\* padded and in upper case, and a row without values as an empty cell reads
DupRows ==
    { [name |-> <<"a", "b">>,      city |-> <<"x">>],
      [name |-> <<" ", "A", "B">>, city |-> <<"x">>],
      [name |-> <<"a", "b", "c">>, city |-> <<"x">>],
      [name |-> <<"a", "b", "d">>, city |-> <<"x">>],
      [name |-> <<"a", "b">>,      city |-> <<"y">>],
      [name |-> <<"n", "a", "n">>, city |-> <<>>] }

\* names with and without a value, the latter as an empty cell and as the word nan,
\* in a dataset that has no geographic column
NoGeoRows == { [name |-> <<"a", "b">>], [name |-> <<>>], [name |-> <<"n", "a", "n">>] }

\* two values twice each, in two cities
TwoPairs ==
    [columns |-> RunColumns,
     rows    |-> << [name |-> <<"a", "b">>,      city |-> <<"x">>],
                    [name |-> <<"a", "b", "c">>, city |-> <<"y">>],
                    [name |-> <<" ", "A", "B">>, city |-> <<"x">>],
                    [name |-> <<"a", "b", "c">>, city |-> <<"y">>] >>]

\* two rows without a name in one city, and two rows without any value
PartlyAbsent ==
    [columns |-> RunColumns,
     rows    |-> << [name |-> <<"n", "a", "n">>, city |-> <<"x">>],
                    [name |-> <<"n", "a", "n">>, city |-> <<>>],
                    [name |-> <<" ", "N", "a", "N">>, city |-> <<"x">>],
                    [name |-> <<"n", "a", "n">>, city |-> <<>>] >>]

\* two rows whose values differ in both columns, one value ending and one starting
\* with the characters "||"
WithSeparator ==
    [columns |-> RunColumns,
     rows    |-> << [name |-> <<"a", "|", "|">>, city |-> <<"b">>],
                    [name |-> <<"a">>,           city |-> <<"|", "|", "b">>] >>]

DupDatasets ==
    {[columns |-> RunColumns, rows |-> rs] : rs \in SeqsUpTo(DupRows, MaxDupRows)}
    \cup {TwoPairs, PartlyAbsent, WithSeparator}
    \cup {[columns |-> <<"name">>, rows |-> rs] : rs \in SeqsUpTo(NoGeoRows, MaxDupRows)}

\* the duplicate rules handed to execute_uniqueness_rules
DupRuleSets ==
    { [exact_rules |-> <<ExactRule(<<"name", "city">>)>>, fuzzy_rules |-> <<>>],
      [exact_rules |-> <<ExactRule(<<"name">>), ExactRule(<<"name", "city">>)>>,
       fuzzy_rules |-> <<FuzzyRule(<<"name">>)>>],
      [exact_rules |-> <<ExactRule(<<"city">>), ExactRule(<<"name">>),
                         ExactRule(<<"name", "city">>)>>,
       fuzzy_rules |-> <<FuzzyRule(<<"name">>)>>],
      [exact_rules |-> <<ExactRule(<<"name", "city">>)>>,
       fuzzy_rules |-> <<FuzzyRule(<<"name">>)>>] }

InitDup ==
    /\ log = <<>>
    /\ cfg = [rule_entries |-> <<>>, exact_rules |-> <<>>, fuzzy_rules |-> <<>>]
    /\ run = NoRun
    /\ rerun = <<>>
    /\ df \in DupDatasets
    /\ fuzz \in [ScorePairs(NormalizedNames(Range(df.rows))) -> ScoreLevels]
    /\ rapidfuzz \in BOOLEAN
    /\ det = NoDetection
    /\ call = NoCall
    /\ workers = NoWorkers

DetectSingle(col) ==
    /\ det.kind = "none"
    /\ InDf(df, col)
    /\ det' = [NoDetection EXCEPT
                  !.kind = "single", !.cols = <<col>>,
                  !.records = detect_exact_duplicates_single(df, col)]
    /\ UNCHANGED <<log, df, cfg, run, rerun, fuzz, rapidfuzz, call, workers>>

DetectCombination(cols) ==
    /\ det.kind = "none"
    /\ \A k \in 1..Len(cols) : InDf(df, cols[k])
    /\ det' = [NoDetection EXCEPT
                  !.kind = "combination", !.cols = cols,
                  !.records = detect_exact_duplicates_combination(df, cols)]
    /\ UNCHANGED <<log, df, cfg, run, rerun, fuzz, rapidfuzz, call, workers>>

FuzzyCall(rule, max_pairs, ignore_nulls, fz, blocks) ==
    [NoDetection EXCEPT
        !.kind = "fuzzy", !.cols = rule.cols, !.threshold = rule.threshold,
        !.weights = FuzzyWeights(rule.cols, rule.weights),
        !.ignore_nulls = ignore_nulls, !.max_pairs = max_pairs,
        !.records = fz.records, !.warnings = fz.warnings,
        !.compared = ComparedPairs(blocks, max_pairs)]

DetectFuzzy(rule, max_pairs, ignore_nulls) ==
    /\ det.kind = "none"
    /\ InDf(df, rule.cols[1])
    /\ det' = FuzzyCall(rule, max_pairs, ignore_nulls,
                  detect_fuzzy_duplicates(df, rule.cols, rule.threshold, rule.weights,
                                          max_pairs, ignore_nulls),
                  FuzzyBlocks(df, FuzzyWork(df, rule.cols, ignore_nulls), rule.cols[1]))
    /\ UNCHANGED <<log, df, cfg, run, rerun, fuzz, rapidfuzz, call, workers>>

\* execute_uniqueness_rules, compute_uniqueness_score and build_clean_dataset as the
\* handler calls them;
\* flagged: the rows the annexure lists, one entry per row each rule flags
UniquenessCall(uq, ur) ==
    IF ur.raised THEN [NoDetection EXCEPT !.kind = "raised", !.rules = uq.rules]
    ELSE
    [NoDetection EXCEPT
        !.kind = "uniqueness", !.rules = uq.rules,
        !.records = ur.dup_records,
        !.all_dups = ur.all_dups,
        !.clean = build_clean_dataset(df, <<>>, ur.dup_records, ur.annexure).kept,
        !.annexure = ur.annexure,
        !.flagged = RowNumbers(ur.annexure),
        !.total = n_rows(df),
        !.score = compute_uniqueness_score(df, ur.dup_records).score]

ExecuteUniqueness(uq) ==
    /\ det.kind = "none"
    /\ det' = UniquenessCall(uq, execute_uniqueness_rules(df, uq.rules, uq.cfg))
    /\ UNCHANGED <<log, df, cfg, run, rerun, fuzz, rapidfuzz, call, workers>>

\* the frame a detector returns for the dataset rows `flagged`, all in one group
FlaggedFrame(total, flagged, type) ==
    LET rows == Positions(total, LAMBDA i : i \in flagged)
    IN  [k \in 1..Len(rows) |-> DupRecord(rows[k], 1, type, 10000, "")]

ScoreFlagged(d, exact, fz, merged) ==
    [NoDetection EXCEPT
        !.kind = "flagged", !.records = merged,
        !.flagged = RowNumbers(exact) \cup RowNumbers(fz),
        !.total = n_rows(d),
        !.score = compute_uniqueness_score(d, merged).score]

\* the merge of execute_uniqueness_rules and compute_uniqueness_score on a dataset of
\* `total` rows of which an exact rule flags the rows `exact` and the fuzzy rule the
\* rows `fz`; of the dataset only its length is read
MergeAndScore(total, exact, fz) ==
    /\ det.kind = "none"
    /\ det' = ScoreFlagged([columns |-> RunColumns, rows |-> [i \in 1..total |-> RowA]],
                           FlaggedFrame(total, exact, "Exact"),
                           FlaggedFrame(total, fz, "Hybrid Fuzzy"),
                           MergeAllDups(FlaggedFrame(total, exact, "Exact")
                                        \o FlaggedFrame(total, fz, "Hybrid Fuzzy")))
    /\ UNCHANGED <<log, df, cfg, run, rerun, fuzz, rapidfuzz, call, workers>>

NextDup ==
    \/ \E col \in Range(RunColumns) : DetectSingle(col)
    \/ DetectCombination(RunColumns)
    \/ \E p \in {[max_pairs |-> 20000, ignore_nulls |-> TRUE],
                 [max_pairs |-> 1, ignore_nulls |-> FALSE]} :
           DetectFuzzy(FuzzyRule(<<"name">>), p.max_pairs, p.ignore_nulls)
    \/ \E rs \in DupRuleSets : ExecuteUniqueness(_ui_uniqueness(rs.exact_rules, rs.fuzzy_rules))
    \/ MergeAndScore(100, {1, 2, 3}, {3, 4, 5})

SpecDup == InitDup /\ [][NextDup]_vars

----------------------------------------------------------------------------
(* Properties of the duplicate detectors *)

Rows == 1..n_rows(df)

\* the row similarity of rows i and j reaches the threshold of the fuzzy rule
Similar(i, j) == Accepted(RowScore(df, i, j, det.cols, det.weights), det.threshold)

\* rows i, j and k are listed under one group id
OneGroup(i, j, k) ==
    \E a, b, c \in 1..Len(det.records) :
        /\ det.records[a].idx = i - 1
        /\ det.records[b].idx = j - 1
        /\ det.records[c].idx = k - 1
        /\ det.records[a].Duplicate_Group_ID = det.records[b].Duplicate_Group_ID
        /\ det.records[b].Duplicate_Group_ID = det.records[c].Duplicate_Group_ID

\* every two pairs of `pairs` that share their middle row have their three rows in
\* one group
Chained(pairs) ==
    \A p, q \in pairs : p[2] = q[1] /\ p[1] # q[2] => OneGroup(p[1], p[2], q[2])

\* C6 as stated: any three rows of which two pairs reach the threshold share a group.
C6_TransitiveAnyRows ==
    det.kind = "fuzzy" =>
        Chained({p \in Rows \X Rows : p[1] # p[2] /\ Similar(p[1], p[2])})

NullIn(i, col) == Normalize(df.rows[i][col]) \in _NULL_SENTINELS

\* row i is kept by the null filter of the fuzzy rule
Kept(i) == det.ignore_nulls => \A c \in 1..Len(det.cols) : ~NullIn(i, det.cols[c])

Block(i) == BlockKey(df, df.rows[i], det.cols[1])

\* rows i and j are scored against each other: both kept, of one block with a key,
\* and the block within the pair limit
Compared(i, j) ==
    /\ i # j /\ Kept(i) /\ Kept(j) /\ Block(i) = Block(j) /\ Block(i) # <<>>
    /\ PairCount(Cardinality({x \in Rows : Kept(x) /\ Block(x) = Block(i)}))
           <= det.max_pairs

\* C6: three rows of which the pairs (i, j) and (j, k) are scored and reach the
\* threshold share one group id, whatever the similarity of (i, k).
C6_TransitiveCompared ==
    det.kind = "fuzzy" =>
        Chained({p \in Rows \X Rows : Compared(p[1], p[2]) /\ Similar(p[1], p[2])})

\* three rows grouped through the middle one, the outer two below the threshold
C6_Witness ==
    /\ det.kind = "fuzzy"
    /\ \E i, j, k \in Rows :
           /\ i # k /\ Compared(i, j) /\ Compared(j, k)
           /\ Similar(i, j) /\ Similar(j, k) /\ ~Similar(i, k)
           /\ OneGroup(i, j, k)

\* every monitored column of row i holds a null sentinel
AllNull(i) == \A c \in 1..Len(det.cols) : NullIn(i, det.cols[c])

NoNullRowGrouped == \A r \in 1..Len(det.records) : ~AllNull(det.records[r].idx + 1)

\* C7 as stated: no detector, the fuzzy one with either value of the flag, lists a
\* row whose monitored columns all hold null sentinels.
C7_NoNullRowAnyFlag ==
    det.kind \in {"single", "combination", "fuzzy"} => NoNullRowGrouped

\* C7: the single-column and combination detectors, and the fuzzy detector with
\* ignore_nulls enabled, list no row whose monitored columns all hold null sentinels.
C7_NoNullRowGrouped ==
    (det.kind \in {"single", "combination"} \/ (det.kind = "fuzzy" /\ det.ignore_nulls))
        => NoNullRowGrouped

\* the fuzzy detector, ignore_nulls enabled, groups rows of a dataset that has a
\* row without a name
C7_Witness ==
    /\ det.kind = "fuzzy" /\ det.ignore_nulls
    /\ \E i \in 1..n_rows(df) : AllNull(i)
    /\ det.records # <<>>

\* C8: the uniqueness score is 100 x (total - d) / total with d the number of distinct
\* rows any rule flags, d at most total; 100 rows with {1,2,3} and {3,4,5} flagged
\* give d = 5 and the score 95.0.
C8_UniquenessScore ==
    /\ det.kind \in {"uniqueness", "flagged"} /\ det.total > 0 =>
           /\ Cardinality(det.flagged) <= det.total
           /\ det.score = RoundDiv(10000 * (det.total - Cardinality(det.flagged)), det.total)
    /\ det.kind = "flagged" /\ det.total = 100 =>
           Cardinality(det.flagged) = 5 /\ det.score = 9500

\* a row that an exact rule and the fuzzy rule both flag, in a dataset with a row
\* that no rule flags
C8_Witness ==
    /\ det.kind = "uniqueness"
    /\ Cardinality(det.flagged) < det.total
    /\ \E a, b \in 1..Len(det.annexure) :
           /\ det.annexure[a].Row_Number = det.annexure[b].Row_Number
           /\ det.annexure[a].Rule_Applied # det.annexure[b].Rule_Applied

\* the rows of the block of row i: the kept rows of its block key
BlockRows(i) == {x \in Rows : Kept(x) /\ Block(x) = Block(i)}

Oversized(i) == PairCount(Cardinality(BlockRows(i))) > det.max_pairs

Grouped(i) == \E r \in 1..Len(det.records) : det.records[r].idx = i - 1

\* the warnings report that n blocks were skipped
SkipReported(n) ==
    \E w \in 1..Len(det.warnings) :
        det.warnings[w] = ToString(n) \o " block(s) exceeded the pair limit"

\* the pairs of kept rows, in index order
KeptPairs == {p \in Rows \X Rows : p[1] < p[2] /\ Kept(p[1]) /\ Kept(p[2])}

OversizedKeys == {Block(i) : i \in {x \in Rows : Kept(x) /\ Block(x) # <<>> /\ Oversized(x)}}

Stage(type) == IF type = "Exact" THEN 1 ELSE IF type = "Combination" THEN 2 ELSE 3

\* the first entry that the frames of the rules, in processing order, hold for a row
FirstFlag(row_number) ==
    det.all_dups[CHOOSE k \in 1..Len(det.all_dups) :
                     /\ det.all_dups[k].Row_Number = row_number
                     /\ \A j \in 1..(k - 1) : det.all_dups[j].Row_Number # row_number]

\* C19: in the duplicate table execute_uniqueness_rules returns each dataset row
\* appears at most once, the rows of the table are the rows that any configured exact
\* or fuzzy rule flagged, and a row carries the group id, match type and score of the
\* first rule that flagged it, the rules taken in the order single-column exact,
\* combination exact, fuzzy.
C19_CrossRuleMerge ==
    det.kind = "uniqueness" =>
        /\ \A a, b \in 1..Len(det.records) :
               a # b => det.records[a].Row_Number # det.records[b].Row_Number
        /\ RowNumbers(det.records) = det.flagged
        /\ RowNumbers(det.records) = RowNumbers(det.all_dups)
        /\ \A j, k \in 1..Len(det.all_dups) :
               j < k => Stage(det.all_dups[j].Duplicate_Type)
                            <= Stage(det.all_dups[k].Duplicate_Type)
        /\ \A a \in 1..Len(det.records) :
               LET first == FirstFlag(det.records[a].Row_Number)
               IN  /\ det.records[a].Duplicate_Group_ID = first.Duplicate_Group_ID
                   /\ det.records[a].Duplicate_Type = first.Duplicate_Type
                   /\ det.records[a].Similarity_Score = first.Similarity_Score

\* a row that the single-column rule, the combination rule and the fuzzy rule all flag
\* is listed as an exact duplicate, next to a row that only the fuzzy rule flags
C19_Witness ==
    /\ det.kind = "uniqueness"
    /\ \E a, b, c \in 1..Len(det.all_dups) :
           /\ det.all_dups[a].Row_Number = det.all_dups[b].Row_Number
           /\ det.all_dups[b].Row_Number = det.all_dups[c].Row_Number
           /\ det.all_dups[a].Duplicate_Type = "Exact"
           /\ det.all_dups[b].Duplicate_Type = "Combination"
           /\ det.all_dups[c].Duplicate_Type = "Hybrid Fuzzy"
           /\ \E r \in 1..Len(det.records) :
                  /\ det.records[r].Row_Number = det.all_dups[a].Row_Number
                  /\ det.records[r].Duplicate_Type = "Exact"
    /\ \E r \in 1..Len(det.records) :
           /\ det.records[r].Duplicate_Type = "Hybrid Fuzzy"
           /\ \A k \in 1..Len(det.all_dups) :
                  det.all_dups[k].Row_Number = det.records[r].Row_Number
                      => det.all_dups[k].Duplicate_Type = "Hybrid Fuzzy"

\* an accepted pair: rows scored against each other whose similarity reaches the
\* threshold
AcceptedPair(i, j) == (Compared(i, j) \/ Compared(j, i)) /\ Similar(i, j)

\* the rows a chain of accepted pairs connects to a row of S, the rows of S included
RECURSIVE Component(_)
Component(S) ==
    LET T == S \cup {y \in Rows : \E x \in S : AcceptedPair(x, y)}
    IN  IF T = S THEN S ELSE Component(T)

\* the group ids row i is listed under
GroupIds(i) ==
    {det.records[a].Duplicate_Group_ID : a \in {a \in 1..Len(det.records) :
                                                  det.records[a].idx = i - 1}}

\* the row similarity of rows i and j, in hundredths
PairScore(i, j) ==
    LET s == RowScore(df, i, j, det.cols, det.weights)
    IN  RoundDiv(s.num * 100, s.den)

\* the scores of the accepted pairs among the rows of S
AcceptedScores(S) ==
    {PairScore(p[1], p[2]) : p \in {p \in S \X S : AcceptedPair(p[1], p[2])}}

\* C22: detect_fuzzy_duplicates returns the connected components of size at least 2
\* of the graph of accepted pairs: two rows share a group id exactly when a chain of
\* accepted pairs connects them, no row is in two groups, and the score of a group is
\* the highest score of the accepted pairs inside it.
C22_ConnectedComponents ==
    det.kind = "fuzzy" =>
        /\ \A i, j \in Rows :
               i # j => ((GroupIds(i) \cap GroupIds(j) # {}) <=> j \in Component({i}))
        /\ \A i \in Rows :
               /\ Cardinality(GroupIds(i)) <= 1
               /\ Cardinality({a \in 1..Len(det.records) : det.records[a].idx = i - 1}) <= 1
               /\ GroupIds(i) # {} <=> Cardinality(Component({i})) >= 2
        /\ \A a \in 1..Len(det.records) :
               LET scores == AcceptedScores(Component({det.records[a].idx + 1}))
               IN  /\ det.records[a].Similarity_Score \in scores
                   /\ \A s \in scores : s <= det.records[a].Similarity_Score

\* a group of three rows joined by a chain, one pair of it scoring 100 and another
\* less, listed with the score 100
C22_Witness ==
    /\ det.kind = "fuzzy"
    /\ \E i, j, k \in Rows :
           /\ AcceptedPair(i, j) /\ AcceptedPair(j, k) /\ i # k
           /\ PairScore(i, j) = 10000 /\ PairScore(j, k) < 10000
           /\ OneGroup(i, j, k)
           /\ \A a \in 1..Len(det.records) : det.records[a].Similarity_Score = 10000

\* the cell of row i in the column of the rule is Absent
AbsentIn(i, col) == Normalize(df.rows[i][col]) \in _NULL_SENTINELS

\* C23: single-column exact match groups the rows by the trimmed, lower-cased value of
\* the column, the Absent rows left out: two rows that are not Absent share a group
\* exactly when their normalized values are equal, every group has at least 2 rows,
\* distinct values have distinct group ids, every group has the similarity 100, and
\* an Absent row is in no group.
C23_SingleExactGroups ==
    det.kind = "single" =>
        /\ \A i, j \in Rows :
               (i # j /\ ~AbsentIn(i, det.cols[1]) /\ ~AbsentIn(j, det.cols[1])) =>
                   ((GroupIds(i) \cap GroupIds(j) # {})
                       <=> Normalize(df.rows[i][det.cols[1]])
                               = Normalize(df.rows[j][det.cols[1]]))
        /\ \A i \in Rows :
               /\ Cardinality({a \in 1..Len(det.records) : det.records[a].idx = i - 1}) <= 1
               /\ AbsentIn(i, det.cols[1]) => GroupIds(i) = {}
        /\ \A a \in 1..Len(det.records) :
               /\ \E b \in 1..Len(det.records) :
                      /\ b # a
                      /\ det.records[b].Duplicate_Group_ID = det.records[a].Duplicate_Group_ID
               /\ det.records[a].Similarity_Score = 10000
               /\ det.records[a].Duplicate_Type = "Exact"

\* "ab" and " AB" form one group of size 2 with similarity 100 and another value
\* occurring twice forms a second group
C23_Witness ==
    /\ det.kind = "single"
    /\ det.cols = <<"name">>
    /\ Len(det.records) = 4
    /\ \E i, j, k \in Rows :
           /\ df.rows[i].name = <<"a", "b">> /\ df.rows[j].name = <<" ", "A", "B">>
           /\ GroupIds(i) = {1} /\ GroupIds(j) = {1}
           /\ GroupIds(k) = {2}
    /\ \A a \in 1..Len(det.records) : det.records[a].Similarity_Score = 10000

\* row i has a value in a selected column
Eligible(i) == \E c \in 1..Len(det.cols) : ~AbsentIn(i, det.cols[c])

\* rows i and j have the same normalized value in every selected column
SameValues(i, j) ==
    \A c \in 1..Len(det.cols) :
        Normalize(df.rows[i][det.cols[c]]) = Normalize(df.rows[j][det.cols[c]])

\* C24: combination exact match leaves a row out exactly when every selected column
\* of the row is Absent; a row of which only some selected columns are Absent stays
\* eligible and shares a group with every other eligible row that has the same
\* normalized value in each selected column.
C24_ExcludedIffAllAbsent ==
    det.kind = "combination" =>
        /\ \A i \in Rows : ~Eligible(i) => GroupIds(i) = {}
        /\ \A i, j \in Rows :
               (i # j /\ Eligible(i) /\ Eligible(j) /\ SameValues(i, j))
                   => GroupIds(i) \cap GroupIds(j) # {}

\* two rows without a name in one city share a group, two rows alike without any
\* value are in none
C24_Witness ==
    /\ det.kind = "combination"
    /\ \E i, j, k, l \in Rows :
           /\ i # j /\ AbsentIn(i, "name") /\ ~AbsentIn(i, "city") /\ SameValues(i, j)
           /\ GroupIds(i) = {1} /\ GroupIds(j) = {1}
           /\ k # l /\ ~Eligible(k) /\ SameValues(k, l)
           /\ GroupIds(k) = {} /\ GroupIds(l) = {}

\* the similarity of the name cells of rows i and j on the scalar path and on the
\* vectorized block path
ScalarCell(i, j) == _hybrid_cell_score(df.rows[i].name, df.rows[j].name)

VectorCell(i, j) ==
    _rapidfuzz_cdist_block_scores(df.rows[i], df.rows[j], <<"name">>, <<1>>).num

\* C25: the similarity of two cells is 100 when their normalized strings are equal,
\* 100 when both cells are Absent and 0 when exactly one of them is Absent, whatever
\* null sentinel an Absent cell holds, on the scalar path and on the vectorized block
\* path alike.
C25_ShortCircuits ==
    det.kind = "fuzzy" =>
        \A i, j \in Rows :
            i # j =>
                /\ Normalize(df.rows[i].name) = Normalize(df.rows[j].name)
                       => ScalarCell(i, j) = 100 /\ VectorCell(i, j) = 100
                /\ (AbsentIn(i, "name") /\ AbsentIn(j, "name"))
                       => ScalarCell(i, j) = 100 /\ VectorCell(i, j) = 100
                /\ (AbsentIn(i, "name") # AbsentIn(j, "name"))
                       => ScalarCell(i, j) = 0 /\ VectorCell(i, j) = 0

\* records a and b of the merged table are of one group
SameGroup(a, b) ==
    /\ det.records[a].Duplicate_Type = det.records[b].Duplicate_Type
    /\ det.records[a].Duplicate_Group_ID = det.records[b].Duplicate_Group_ID

\* C28: in the merged duplicate table of execute_uniqueness_rules every group, the
\* rows of one Duplicate_Type and Duplicate_Group_ID, has at least 2 member rows, and
\* all rows of a group were matched to each other by one rule on the same column(s):
\* group ids of different rules or single columns never coincide and the first-wins
\* removal of a row leaves no group with a single member.
C28_GroupsWholeAndApart ==
    det.kind = "uniqueness" =>
        /\ \A a \in 1..Len(det.records) :
               \E b \in 1..Len(det.records) : b # a /\ SameGroup(a, b)
        /\ \A a, b \in 1..Len(det.records) :
               SameGroup(a, b) => det.records[a].Source = det.records[b].Source

\* the rows of the group of entry k of the frames of the rules: the rows one rule
\* matched to each other on its column(s), as Row_Numbers
GroupRows(k) ==
    {det.all_dups[h].Row_Number : h \in {h \in 1..Len(det.all_dups) :
        /\ det.all_dups[h].Duplicate_Type = det.all_dups[k].Duplicate_Type
        /\ det.all_dups[h].Duplicate_Group_ID = det.all_dups[k].Duplicate_Group_ID
        /\ det.all_dups[h].Source = det.all_dups[k].Source}}

\* the rows of the clean dataset, as Row_Numbers
CleanRows == {det.clean[k] + 1 : k \in 1..Len(det.clean)}

\* C29: build_clean_dataset keeps of every duplicate group found by any rule one
\* member row, the one with the lowest row number, and removes every other member:
\* no group loses all of its rows, none keeps more than one, and no row outside the
\* duplicate table is removed.
C29_OneRowPerGroup ==
    det.kind = "uniqueness" =>
        /\ \A k \in 1..Len(det.all_dups) :
               /\ Cardinality(GroupRows(k) \cap CleanRows) = 1
               /\ \A r \in GroupRows(k) \cap CleanRows : \A q \in GroupRows(k) : r <= q
        /\ \A i \in Rows : (i + 1) \notin RowNumbers(det.records) => (i + 1) \in CleanRows

\* C30: the key of combination exact match is injective on the tuples of normalized
\* values: two rows share a combination group only if their trimmed, lower-cased
\* values are equal in every selected column, also when a value contains the
\* separator.
C30_KeyInjective ==
    det.kind = "combination" =>
        \A i, j \in Rows :
            (i # j /\ GroupIds(i) \cap GroupIds(j) # {}) => SameValues(i, j)

----------------------------------------------------------------------------
(* The rule executors as functions of a dataset: one call on each dataset *)

\* cells as load_dataset yields them; an empty cell reads as "" or "nan"
ExecCells ==
    { <<>>,
      <<" ">>,
      <<"n", "a", "n">>,
      <<"N", "/", "A">>,
      <<" ", "n", "a", " ">>,
      <<"a", "b">>,
      <<" ", "a", "b">>,
      <<"A", "B">>,
      <<"a", "@", "b", ".", "c">>,
      <<"1", "2">> }

ExecDatasets ==
    {[columns |-> RunColumns, rows |-> rs] :
        rs \in SeqsUpTo({[name |-> c, city |-> <<"x">>] : c \in ExecCells}, MaxExecRows)}

MapEntry(column, rule, config) == [column |-> column, rule |-> rule, config |-> config]

MapCall(column_rule_map) == [NoArgs EXCEPT !.column_rule_map = column_rule_map]

\* the calls of execute_completeness_rules: Not Null and Mandatory Column, and Not Null
\* with Minimum Length on one column, on the column_rule_map path and on the legacy
\* path
CompletenessCalls ==
    { MapCall(<<MapEntry("name", "Not Null", NoConfig)>>),
      MapCall(<<MapEntry("name", "Not Null", NoConfig),
                MapEntry("name", "Minimum Length", [min_length |-> 3])>>),
      [NoArgs EXCEPT !.selected_rules = <<"Not Null", "Minimum Length">>,
                     !.columns = <<"name">>],
      MapCall(<<MapEntry("name", "Mandatory Column", NoConfig)>>),
      [NoArgs EXCEPT !.selected_rules = <<"Not Null">>, !.columns = <<"name">>],
      [NoArgs EXCEPT !.selected_rules = <<"Mandatory Column">>,
                     !.mandatory_cols = <<"name">>] }

\* the calls of execute_validity_rules: every rule kind with its parameters, rules
\* whose pattern does not compile, a data type that is none of the known ones, a
\* rule without its parameter, a rule on a column the dataset does not have
ValidityCalls ==
    { MapCall(<<MapEntry("name", "Email Format", NoConfig)>>),
      MapCall(<<MapEntry("name", "Data Type Validation", [data_type |-> "integer"])>>),
      MapCall(<<MapEntry("name", "Data Type Validation", [data_type |-> "text"])>>),
      MapCall(<<MapEntry("name", "Allowed Values", [allowed_values_str |-> <<"a", "b">>])>>),
      MapCall(<<MapEntry("name", "Custom Regex", [regex |-> LowercasePattern])>>),
      MapCall(<<MapEntry("name", "Custom Regex", [regex |-> UnbalancedPattern]),
                MapEntry("name", "Email Format", NoConfig)>>),
      MapCall(<<MapEntry("name", "Custom Regex", NoConfig),
                MapEntry("name", "Email Format", NoConfig)>>),
      MapCall(<<MapEntry("name", "Special Characters Not Allowed", NoConfig)>>),
      MapCall(<<MapEntry("name", "Length Check", [max_length_val |-> 2])>>),
      MapCall(<<MapEntry("name", "Format Check", NoConfig)>>),
      MapCall(<<MapEntry("name", "Format Check", [format_pattern |-> UnbalancedPattern]),
                MapEntry("name", "Email Format", NoConfig)>>),
      MapCall(<<MapEntry("ghost", "Email Format", NoConfig),
                MapEntry("name", "Length Check", NoConfig)>>) }

\* the calls of execute_standardization_rules: one rule, and two rules on one column
StandardizationCalls ==
    { MapCall(<<MapEntry("name", "Trim Spaces", NoConfig)>>),
      MapCall(<<MapEntry("name", "Convert to Lowercase", NoConfig)>>),
      MapCall(<<MapEntry("name", "Replace Null with Default", NoConfig)>>),
      MapCall(<<MapEntry("name", "Trim Spaces", NoConfig),
                MapEntry("name", "Convert to Lowercase", NoConfig)>>),
      MapCall(<<MapEntry("name", "Convert to Lowercase", NoConfig),
                MapEntry("name", "Replace Null with Default",
                         [null_default |-> <<"n", "o", "n", "e">>])>>),
      [NoArgs EXCEPT !.selected_rules = <<"Convert to Lowercase", "Trim Spaces">>,
                     !.columns = <<"name">>] }

InitExec ==
    /\ log = <<>>
    /\ cfg = [rule_entries |-> <<>>, exact_rules |-> <<>>, fuzzy_rules |-> <<>>]
    /\ run = NoRun
    /\ rerun = <<>>
    /\ df \in ExecDatasets
    /\ fuzz \in {[p \in ScorePairs(NormalizedNames(Range(df.rows))) |-> l] : l \in ScoreLevels}
    /\ rapidfuzz \in BOOLEAN
    /\ det = NoDetection
    /\ call = NoCall
    /\ workers = NoWorkers

CompletenessCall(c, r) ==
    [NoCall EXCEPT !.kind = "completeness", !.args = c,
                   !.annexure = r.annexure, !.entries = r.entries]

\* the executor reads the frame and assigns nothing to it
CallCompleteness(c) ==
    /\ call.kind = "none"
    /\ call' = CompletenessCall(c,
                   execute_completeness_rules(df, c.selected_rules, c.columns,
                       DefaultMinLength, c.mandatory_cols, c.column_rule_map))
    /\ UNCHANGED <<log, df, cfg, run, rerun, fuzz, rapidfuzz, det, workers>>

\* execute_validity_rules returns the annexure list and nothing else: no warnings
ValidityCall(c, r) ==
    [NoCall EXCEPT !.kind = "validity", !.args = c,
                   !.annexure = r.annexure, !.entries = r.entries, !.raised = r.raised]

CallValidity(c) ==
    /\ call.kind = "none"
    /\ call' = ValidityCall(c,
                   execute_validity_rules(df, c.selected_rules, c.columns, <<>>,
                                          c.column_rule_map))
    /\ UNCHANGED <<log, df, cfg, run, rerun, fuzz, rapidfuzz, det, workers>>

\* an executor that assigns to the frame it was passed
CallerFrame_m(d, assigned) == assigned

\* The caller's frame after a call that assigns columns, `assigned` being the frame the
\* assignments build.  The executors and detectors assign to copies (df.copy(),
\* df.loc[...].copy(), df[mask].copy()), never to the frame they were passed.
CallerFrame(d, assigned) == d

\* the rows step k reported: the annexure rows it appended, as 1-based positions
StepReported(fold, k) ==
    {fold[k].annexure[j].Row_Number - 1 :
        j \in (Len(fold[k - 1].annexure) + 1)..Len(fold[k].annexure)}

StandardizationCall(c, steps, fold, r) ==
    [NoCall EXCEPT !.kind = "standardization", !.args = c,
                   !.annexure = r.annexure, !.entries = r.entries, !.cleaned = r.cleaned,
                   !.steps = steps,
                   !.trace = [k \in 1..Len(steps) |-> fold[k].cleaned],
                   !.reported = [k \in 1..Len(steps) |-> StepReported(fold, k)]]

StandardizationOn(c, steps, r) ==
    /\ call' = StandardizationCall(c, steps, StdFold(df, steps, DefaultNullDefault), r)
    /\ df' = CallerFrame(df, r.cleaned)

CallStandardization(c) ==
    /\ call.kind = "none"
    /\ StandardizationOn(c, StdSteps(df, c.selected_rules, c.columns, c.column_rule_map),
                         execute_standardization_rules(df, c.selected_rules, c.columns,
                             DefaultNullDefault, c.column_rule_map))
    /\ UNCHANGED <<log, cfg, run, rerun, fuzz, rapidfuzz, det, workers>>

\* work of detect_fuzzy_duplicates: the rows kept, with the helper column "_block"
WorkFrame(d, cols, ignore_nulls) ==
    LET work == FuzzyWork(d, cols, ignore_nulls)
    IN  [columns |-> Append(d.columns, "_block"),
         rows    |-> [k \in 1..Len(work) |->
                         [c \in DOMAIN d.rows[work[k]] \cup {"_block"} |->
                             IF c = "_block" THEN BlockKey(d, d.rows[work[k]], cols[1])
                             ELSE d.rows[work[k]][c]]]]

\* the frame the detectors assign to: the exact detectors add their result columns to
\* the duplicated rows they copied, the fuzzy detector filters and keys `work`
UniquenessAssigned(d, selected_rules, u) ==
    IF "Hybrid Fuzzy Match" \in Range(selected_rules) /\ u.fuzzy_cols # <<>>
       /\ InDf(d, u.fuzzy_cols[1])
    THEN WorkFrame(d, u.fuzzy_cols, u.fuzzy_ignore_nulls)
    ELSE [columns |-> d.columns \o <<"Duplicate_Group_ID", "Duplicate_Type",
                                     "Similarity_Score", "Row_Number">>,
          rows    |-> d.rows]

UniquenessCallOn(uq, ur) ==
    [NoCall EXCEPT !.kind = "uniqueness",
                   !.args = [NoArgs EXCEPT !.selected_rules = uq.rules],
                   !.annexure = ur.annexure, !.warnings = ur.warnings, !.raised = ur.raised]

CallUniqueness(uq) ==
    /\ call.kind = "none"
    /\ call' = UniquenessCallOn(uq, execute_uniqueness_rules(df, uq.rules, uq.cfg))
    /\ df' = CallerFrame(df, UniquenessAssigned(df, uq.rules, uq.cfg))
    /\ UNCHANGED <<log, cfg, run, rerun, fuzz, rapidfuzz, det, workers>>

NextExec ==
    \/ \E c \in CompletenessCalls : CallCompleteness(c)
    \/ \E c \in ValidityCalls : CallValidity(c)
    \/ \E c \in StandardizationCalls : CallStandardization(c)
    \/ \E rs \in DupRuleSets : CallUniqueness(_ui_uniqueness(rs.exact_rules, rs.fuzzy_rules))

SpecExec == InitExec /\ [][NextExec]_vars

----------------------------------------------------------------------------
(* Properties of the rule executors *)

ExecRows == 1..n_rows(df)

\* the cell is classified Absent: trimmed and lower-cased it is a null sentinel
Absent(v) == Normalize(v) \in _NULL_SENTINELS

\* the call returned an issue record of row i under the column and rule label
Reported(i, column, rule) ==
    \E j \in 1..Len(call.annexure) :
        /\ call.annexure[j].Row_Number = i + 1
        /\ call.annexure[j].Column_Name = column
        /\ call.annexure[j].Rule_Applied = rule

\* C11: every validity rule kind passes every cell classified Absent: the call emits no
\* issue record for such a cell and the Failed of each audit entry counts only the
\* cells that are not Absent.
C11_AbsentPasses ==
    call.kind = "validity" /\ ~call.raised =>
        \A k \in 1..Len(call.entries) :
            /\ \A i \in ExecRows :
                   Absent(df.rows[i][call.entries[k].Column])
                       => ~Reported(i, call.entries[k].Column, call.entries[k].Rule)
            /\ call.entries[k].Failed =
                   Cardinality({i \in ExecRows :
                       /\ ~Absent(df.rows[i][call.entries[k].Column])
                       /\ Reported(i, call.entries[k].Column, call.entries[k].Rule)})

\* the expected types rule_data_type knows
KnownTypes == {"numeric", "integer", "float", "string", "date"}

CustomPattern(entry) == Get(entry.config, "regex", Get(entry.config, "custom_regex", ""))

\* the parameters of the map entry are malformed: a pattern that does not compile, an
\* expected type that is not known, a Custom Regex without its pattern
Malformed(entry) ==
    \/ entry.rule = "Custom Regex"
           /\ (CustomPattern(entry) = "" \/ ~Compiles(CustomPattern(entry)))
    \/ MatchedPattern(entry) # <<>> /\ ~Compiles(MatchedPattern(entry)[1])
    \/ entry.rule = "Data Type Validation"
           /\ Get(entry.config, "data_type", "string") \notin KnownTypes

\* the label the entry is logged and reported under
RuleLabel(entry) ==
    CASE entry.rule = "Custom Regex" -> "Regex: " \o CustomPattern(entry)
      [] entry.rule = "Data Type Validation" ->
            "Data Type (" \o Get(entry.config, "data_type", "string") \o ")"
      [] entry.rule = "Format Check" -> "Format Check (" \o MatchedPattern(entry)[1] \o ")"
      [] entry.rule = "Length Check" ->
            "Length Check (max "
                \o ToString(Get(entry.config, "max_length_val", DefaultMaxLength)) \o ")"
      [] OTHER -> entry.rule

CallMap == call.args.column_rule_map

\* C12: a validity rule with malformed parameters never aborts the call: the rule
\* passes every cell, a configuration warning is returned to the caller, and every
\* other rule of the map is still evaluated.
C12_MalformedDegrades ==
    (call.kind = "validity"
        /\ \E k \in 1..Len(CallMap) : InDf(df, CallMap[k].column) /\ Malformed(CallMap[k]))
    => /\ ~call.raised
       /\ call.warnings # <<>>
       /\ \A k \in 1..Len(CallMap) :
              InDf(df, CallMap[k].column) =>
                  IF Malformed(CallMap[k])
                  THEN \A i \in ExecRows :
                           ~Reported(i, CallMap[k].column, RuleLabel(CallMap[k]))
                  ELSE \E e \in 1..Len(call.entries) :
                           /\ call.entries[e].Column = CallMap[k].column
                           /\ call.entries[e].Rule = RuleLabel(CallMap[k])

\* "", nan, none, null, na, n/a, n.a., nil, missing, #n/a
SentinelWords ==
    { <<>>, <<"n", "a", "n">>, <<"n", "o", "n", "e">>, <<"n", "u", "l", "l">>, <<"n", "a">>,
      <<"n", "/", "a">>, <<"n", ".", "a", ".">>, <<"n", "i", "l">>,
      <<"m", "i", "s", "s", "i", "n", "g">>, <<"#", "n", "/", "a">> }

\* C17: Not Null, and likewise Mandatory Column, reports a failure on the cell of row r
\* and column c exactly when the trimmed, lower-cased value of the cell is one of "",
\* nan, none, null, na, n/a, n.a., nil, missing, #n/a.
C17_NotNullIffSentinel ==
    call.kind = "completeness" =>
        /\ \E k \in 1..Len(call.entries) :
               call.entries[k].Rule \in {"Not Null", "Mandatory Column"}
        /\ \A k \in 1..Len(call.entries) :
               call.entries[k].Rule \in {"Not Null", "Mandatory Column"} =>
                   /\ \A i \in ExecRows :
                          Reported(i, call.entries[k].Column, call.entries[k].Rule)
                              <=> Lower(Strip(df.rows[i][call.entries[k].Column]))
                                      \in SentinelWords
                   /\ call.entries[k].Failed =
                          Cardinality({i \in ExecRows :
                              Lower(Strip(df.rows[i][call.entries[k].Column]))
                                  \in SentinelWords})

\* Mandatory Column fails a padded sentinel in upper case and passes a value
C17_Witness ==
    /\ call.kind = "completeness"
    /\ call.entries[1].Rule = "Mandatory Column"
    /\ \E i, j \in ExecRows :
           /\ df.rows[i].name = <<"N", "/", "A">> /\ Reported(i, "name", "Mandatory Column")
           /\ df.rows[j].name = <<" ", "a", "b">> /\ ~Reported(j, "name", "Mandatory Column")

C20_FailureIffDiffers ==
    call.kind = "standardization" =>
        \A k \in 1..Len(call.steps) :
            InDf(df, call.steps[k].column) =>
                \A i \in ExecRows :
                    i \in call.reported[k]
                        <=> call.trace[k].rows[i][call.steps[k].column]
                                # df.rows[i][call.steps[k].column]

\* the issue records of the call for the cell of row i in the column
CellRecords(i, column) ==
    {j \in 1..Len(call.annexure) :
        call.annexure[j].Row_Number = i + 1 /\ call.annexure[j].Column_Name = column}

\* C26: with Not Null and Minimum Length(n) both configured on one column, an Absent
\* cell of the column is recorded as a failure once, not once under each rule: it has
\* one issue record, and the Failed counts of the audit entries of the column add up
\* to the number of cells that failed.
C26_AbsentLoggedOnce ==
    (call.kind = "completeness" /\ Len(call.entries) = 2) =>
        /\ \A i \in ExecRows :
               AbsentIn(i, call.entries[1].Column)
                   => Cardinality(CellRecords(i, call.entries[1].Column)) = 1
        /\ call.entries[1].Failed + call.entries[2].Failed =
               Cardinality({i \in ExecRows : CellRecords(i, call.entries[1].Column) # {}})

----------------------------------------------------------------------------
(* Concurrent sessions: two runs of _run_dq_assessment in one server process, each in
   the script thread of its session, all on the one module-level audit log *)

Sessions == {1, 2}

\* the dimensions whose score functions read the audit log, in the order the handler
\* takes them
LogStages == <<"Completeness", "Validity", "Standardization">>

ConcConfigs ==
    { [rule_entries |-> <<Entry("name", "Completeness", "Not Null", NoConfig, FALSE)>>,
       exact_rules |-> <<>>, fuzzy_rules |-> <<>>],
      [rule_entries |-> <<Entry("city", "Completeness", "Not Null", NoConfig, FALSE),
                          AllowedY,
                          Entry("name", "Standardization", "Trim Spaces", NoConfig, FALSE)>>,
       exact_rules |-> <<>>, fuzzy_rules |-> <<>>] }

\* rules_by_dim[dim]
StageRules(m, dim) ==
    CASE dim = "Completeness" -> m.comp_rules
      [] dim = "Validity" -> m.val_rules
      [] dim = "Standardization" -> m.std_rules

\* the first stage from k on that has rules, Len(LogStages) + 1 when there is none
StageFrom(m, k) ==
    LET with == {j \in k..Len(LogStages) : StageRules(m, LogStages[j]) # <<>>}
    IN  IF with = {} THEN Len(LogStages) + 1 ELSE CHOOSE j \in with : \A i \in with : j <= i

\* a run at its start: d, c the dataset and rules of the session, stage the position
\* in LogStages, phase "execute" before the executor of the stage is called and
\* "score" before its score function is
Worker(d, c) ==
    [d |-> d, c |-> c, stage |-> StageFrom(_extract_rules_cfg(c.rule_entries), 1),
     phase |-> "execute", annexure |-> <<>>, entries |-> <<>>, dim_scores |-> <<>>]

\* the executor call of the handler for the dimension
ExecuteStage(d, c, m, dim) ==
    CASE dim = "Completeness" ->
            execute_completeness_rules(d, m.comp_rules, m.comp_columns, m.min_length_val,
                                       m.mandatory_cols, <<>>)
      [] dim = "Validity" ->
            execute_validity_rules(d, m.val_rules, m.val_columns, m.allowed_values_str,
                                   ColumnRuleMap(c.rule_entries, "Validity"))
      [] dim = "Standardization" ->
            execute_standardization_rules(d, m.std_rules, m.std_columns, m.null_default,
                                          ColumnRuleMap(c.rule_entries, "Standardization"))

\* the score call of the handler for the dimension, on the audit log as it is then
ScoreStage(lg, d, m, annexure, dim) ==
    CASE dim = "Completeness" ->
            compute_completeness_score(lg, d, annexure, m.comp_columns, m.comp_rules, <<>>)
      [] dim = "Validity" ->
            compute_validity_score(lg, d, annexure, m.val_columns, m.val_rules, <<>>)
      [] dim = "Standardization" ->
            compute_standardization_score(lg, d, annexure, m.std_columns, m.std_rules, <<>>)

InitConc ==
    /\ log = <<>>
    /\ df = NoDataset
    /\ cfg = [rule_entries |-> <<>>, exact_rules |-> <<>>, fuzzy_rules |-> <<>>]
    /\ run = NoRun
    /\ rerun = <<>>
    /\ fuzz = <<>>
    /\ rapidfuzz \in BOOLEAN
    /\ det = NoDetection
    /\ call = NoCall
    /\ workers \in [Sessions -> {Worker(d, c) : d \in Datasets, c \in ConcConfigs}]

Executed(w, res) ==
    /\ log' = log \o res.entries
    /\ workers' = [workers EXCEPT ![w].phase = "score", ![w].annexure = res.annexure,
                                  ![w].entries = @ \o res.entries]

\* the run of session w calls the executor of its stage: the audit entries go to the
\* module-level log
ExecuteRules(w) ==
    /\ workers[w].stage <= Len(LogStages)
    /\ workers[w].phase = "execute"
    /\ Executed(w, ExecuteStage(workers[w].d, workers[w].c,
                                _extract_rules_cfg(workers[w].c.rule_entries),
                                LogStages[workers[w].stage]))
    /\ UNCHANGED <<df, cfg, run, rerun, fuzz, rapidfuzz, det, call>>

Scored(w, m, score) ==
    workers' = [workers EXCEPT
                   ![w].dim_scores = SetScore(@, LogStages[workers[w].stage], score),
                   ![w].stage = StageFrom(m, workers[w].stage + 1),
                   ![w].phase = "execute"]

\* the run of session w calls the score function of its stage: it reads the
\* module-level log
ComputeScore(w) ==
    /\ workers[w].stage <= Len(LogStages)
    /\ workers[w].phase = "score"
    /\ Scored(w, _extract_rules_cfg(workers[w].c.rule_entries),
              ScoreStage(log, workers[w].d, _extract_rules_cfg(workers[w].c.rule_entries),
                         workers[w].annexure, LogStages[workers[w].stage]))
    /\ UNCHANGED <<log, df, cfg, run, rerun, fuzz, rapidfuzz, det, call>>

NextConc == \E w \in Sessions : ExecuteRules(w) \/ ComputeScore(w)

SpecConc == InitConc /\ [][NextConc]_vars

----------------------------------------------------------------------------
(* Properties of concurrent sessions *)

Finished(w) == workers[w].stage > Len(LogStages)

\* the scores of the run of session w when no other run is under way
Alone(w) == RunAssessment(<<>>, workers[w].d, workers[w].c).result.dim_scores

\* C16: with the executor calls and score computations of two runs interleaved in any
\* order, each run obtains the dimension scores it obtains running alone.
C16_ConcurrentSafe ==
    \A w \in Sessions : Finished(w) => workers[w].dim_scores = Alone(w)

====
